---- MODULE Spec2Model ----
(***************************************************************************)
(* Model of the dependency synchronisation of aiflows/flow_verse/loading.py *)
(* (sync_dependencies and what it calls).                                   *)
(*                                                                          *)
(* Strings are sequences of atoms.  An atom is either one punctuation mark  *)
(* ("/", " ", "->", ":", "*") or a maximal run of word characters (\w+),    *)
(* so that the regular expressions of the source, which only separate on    *)
(* punctuation, can be computed on them.  A path is the text of the path.   *)
(***************************************************************************)
EXTENDS Integers, Sequences, FiniteSets, TLC

VARIABLES
    upstream,   \* registry: <<repo id, revision label>> -> commit hash now at that label
    wc,         \* file system: sync location -> what is there (nothing, a link, a directory)
    mf,         \* file system: flow.mod (whether it exists, and its lines)
    pc,         \* "idle", or "run" while a call of _sync_dependencies holds _lock
    reqs,       \* the dependencies argument of the current (or last) call
    allOw,      \* the all_overwrite argument of the current (or last) call
    pos,        \* number of dependencies of the current call processed so far
    summary,    \* flow_mod_summary of the current (or last) call
    last,       \* what the last processed dependency did (observation)
    call,       \* what the current (or last) call did so far (observation)
    calls,      \* number of calls started
    advn,       \* number of new commits the registry received
    editn,      \* number of changes the user made to working copies
    probe,      \* input and result of one evaluation of a pure function
    lock,       \* _lock: 0 when free, else the thread that took it last
    threads,    \* the threads of the process that call _sync_dependencies
    gitignore   \* the file .gitignore of sync_root

vars == <<upstream, wc, mf, pc, reqs, allOw, pos, summary, last, call,
          calls, advn, editn, probe, lock, threads, gitignore>>

\* ------------------------------------------------------------------ bounds
\* calls of sync_dependencies with freely chosen arguments (each may be repeated once)
MaxCalls == 2
\* dependencies in one call
MaxReqs == 2
\* new commits the registry receives
MaxAdvance == 1
\* changes the user makes to working copies
MaxEdits == 1
\* lines a parsed flow.mod holds after its cache_root line
MaxLines == 3
\* atoms in the namespace and in the name of a validated url
MaxWord == 2
\* lines of the .gitignore a call finds
MaxIgnoreLines == 2

\* the largest max_rounds of a CircularFlow
MaxRounds == 3

\* ------------------------------------------------------------------- text
Last(s) == s[Len(s)]

Front(s) == SubSeq(s, 1, Len(s) - 1)

Range(s) == {s[i] : i \in 1..Len(s)}

\* characters of \d+ runs and of other \w+ runs
DigitAtoms == {"3"}

LetterAtoms == {"acme", "widgets", "user_", "d", "m", "main", "dev", "h1", "h2", "h3",
                "w", "c", "src", "lib", "flow_modules", "models", "snapshots",
                "NO_COMMIT_HASH", "_", "sync_root", "cache_root"}

WordAtoms == DigitAtoms \cup LetterAtoms

\* a text that matches ^\w+$
IsWord(t) == Len(t) > 0 /\ \A i \in 1..Len(t) : t[i] \in WordAtoms

\* a text that matches ^\d+\w+$ (every digit atom here is one character long)
IsDigitPrefixed(t) == IsWord(t) /\ Len(t) >= 2 /\ t[1] \in DigitAtoms

\* str.strip() for the blank atom
RECURSIVE LStrip(_)
LStrip(t) == IF Len(t) > 0 /\ t[1] = " " THEN LStrip(Tail(t)) ELSE t

RECURSIVE RStrip(_)
RStrip(t) == IF Len(t) > 0 /\ Last(t) = " " THEN RStrip(Front(t)) ELSE t

Strip(t) == RStrip(LStrip(t))

\* ------------------------------------------------------------------ paths
\* the segments of a path text, split on "/"
RECURSIVE Segments(_)
Segments(p) ==
    IF p = <<>> THEN <<>>
    ELSE IF p[1] = "/" THEN Segments(Tail(p))
    ELSE LET n == CHOOSE k \in 1..Len(p) :
                      /\ \A i \in 1..k : p[i] # "/"
                      /\ (k = Len(p) \/ p[k + 1] = "/")
         IN <<SubSeq(p, 1, n)>> \o Segments(SubSeq(p, n + 1, Len(p)))

RECURSIVE JoinSegments(_)
JoinSegments(ss) ==
    IF ss = <<>> THEN <<>>
    ELSE IF Len(ss) = 1 THEN ss[1]
    ELSE ss[1] \o <<"/">> \o JoinSegments(Tail(ss))

IsAbs(p) == Len(p) > 0 /\ p[1] = "/"

\* os.path.join(a, b)
PathJoin(a, b) ==
    IF IsAbs(b) THEN b
    ELSE IF a = <<>> \/ Last(a) = "/" THEN a \o b
    ELSE a \o <<"/">> \o b

\* os.path.basename
Basename(p) ==
    LET idx == {i \in 1..Len(p) : p[i] = "/"}
    IN IF idx = {} THEN p
       ELSE LET k == CHOOSE i \in idx : \A j \in idx : j <= i
            IN SubSeq(p, k + 1, Len(p))

\* length of the common prefix of two sequences of segments
RECURSIVE CommonLen(_, _)
CommonLen(a, b) ==
    IF a = <<>> \/ b = <<>> \/ a[1] # b[1] THEN 0
    ELSE 1 + CommonLen(Tail(a), Tail(b))

\* os.path.relpath(p, start) for absolute p and start
RelPath(p, start) ==
    LET ps == Segments(p)
        ss == Segments(start)
        n == CommonLen(ps, ss)
        ups == [i \in 1..(Len(ss) - n) |-> <<"..">>]
        rest == ups \o SubSeq(ps, n + 1, Len(ps))
    IN IF rest = <<>> THEN <<".">> ELSE JoinSegments(rest)

\* ------------------------------------------------------- program constants
\* loading.py:27
DEFAULT_FLOW_MODULE_FOLDER == <<"flow_modules">>

\* loading.py:29-33, one atom per line
REVISION_FILE_HEADER ==
    << <<"########################################">>,
       <<"# auto-generated by aiflows, DO NOT EDIT #">>,
       <<"########################################">> >>

DEFAULT_REMOTE_REVISION == <<"main">>

NO_COMMIT_HASH == <<"NO_COMMIT_HASH">>

\* abspath(join(flow_modules_base_dir, DEFAULT_FLOW_MODULE_FOLDER)) of the calls modelled
SyncRoot == PathJoin(<<"/", "w">>, DEFAULT_FLOW_MODULE_FOLDER)

\* the cache_root argument of the calls modelled
CacheRoot == <<"/", "c">>

\* the local directories that exist (absolute paths)
LocalDirs == { <<"/", "src", "/", "lib">> }

\* os.path.exists on a revision string
PathExists(t) == t \in LocalDirs

\* os.path.isdir on a revision string
PathIsDir(t) == t \in LocalDirs

\* a path at which there is no file
NoFile == [exists |-> FALSE, lines |-> <<>>]

FileOf(lines) == [exists |-> TRUE, lines |-> lines]

\* no match, for the results that are sequences of texts
None == <<"None">>

\* no descriptor
NoSpec == [none |-> TRUE]

\* ------------------------------------------------------------ descriptors
\* FlowModuleSpec
FlowModuleSpec(repo_id, revision, commit_hash, cache_dir, sync_dir) ==
    [repo_id |-> repo_id, revision |-> revision, commit_hash |-> commit_hash,
     cache_dir |-> cache_dir, sync_dir |-> sync_dir]

\* FlowModuleSpec.build_mod_id
build_mod_id(repo_id, revision) == repo_id \o <<":">> \o revision

mod_id(spec) == build_mod_id(spec.repo_id, spec.revision)

\* is_local_revision
is_local_revision(revision) == PathExists(revision)

\* utils.build_hf_cache_path: <cache_root>/models--<user>--<repo>/snapshots/<commit>
build_hf_cache_path(repo_id, commit_hash, cache_root) ==
    LET ss == Segments(repo_id)
        folder == <<"models", "--">> \o ss[1] \o <<"--">> \o JoinSegments(Tail(ss))
    IN PathJoin(cache_root, folder \o <<"/", "snapshots", "/">> \o commit_hash)

\* --------------------------------------------------------------- manifest
\* position of repo_id among the keys of _mods, 0 when absent
ModIndex(mods, repo_id) ==
    IF \E i \in 1..Len(mods) : mods[i].repo_id = repo_id
    THEN CHOOSE i \in 1..Len(mods) : mods[i].repo_id = repo_id
    ELSE 0

\* the mutation of add_mod that appends without looking for the key
AddModAppend(mods, spec) == Append(mods, spec)

\* the mutation of add_mod that keeps the descriptor a key already has
AddModKeepFirst(mods, spec) ==
    IF ModIndex(mods, spec.repo_id) = 0 THEN Append(mods, spec) ELSE mods

\* FlowModuleSpecSummary.add_mod: _mods[repo_id] = spec on an insertion-ordered dict
add_mod(mods, spec) ==
    LET i == ModIndex(mods, spec.repo_id)
    IN IF i = 0 THEN Append(mods, spec) ELSE [mods EXCEPT ![i] = spec]

\* FlowModuleSpecSummary.get_mod
get_mod(mods, repo_id) ==
    LET i == ModIndex(mods, repo_id)
    IN IF i = 0 THEN NoSpec ELSE mods[i]

\* FlowModuleSpecSummary.__init__: {mod.repo_id: mod for mod in mods}
RECURSIVE ModsDict(_, _)
ModsDict(acc, list) ==
    IF list = <<>> THEN acc ELSE ModsDict(add_mod(acc, list[1]), Tail(list))

FlowModuleSpecSummary(sync_root, cache_root, list) ==
    [status |-> "ok", sync_root |-> sync_root, cache_root |-> cache_root,
     mods |-> ModsDict(<<>>, list)]

\* the mutation of the line that writes the repository id as the relative path
ModLineByRepoId(mod, sync_root) ==
    mod.repo_id \o <<" ">> \o mod.revision \o <<" ">> \o mod.commit_hash
        \o <<" ", "->", " ", "_", "/">> \o mod.repo_id

\* the line serialize writes for one descriptor
ModLine(mod, sync_root) ==
    mod.repo_id \o <<" ">> \o mod.revision \o <<" ">> \o mod.commit_hash
        \o <<" ", "->", " ", "_", "/">> \o RelPath(mod.sync_dir, sync_root)

\* FlowModuleSpecSummary.serialize, as lines
serialize(s) ==
    << <<"sync_root", ":", " ">> \o s.sync_root,
       <<"cache_root", ":", " ">> \o s.cache_root >>
    \o [i \in 1..Len(s.mods) |-> ModLine(s.mods[i], s.sync_root)]

\* write_flow_mod_summary: the lines of the file written
write_flow_mod_summary(s) == REVISION_FILE_HEADER \o serialize(s)

\* the lines create_empty_flow_mod_file writes
EmptyFlowModFile(sync_root, cache_root) ==
    REVISION_FILE_HEADER
    \o << <<"sync_root", ":", " ">> \o sync_root,
          <<"cache_root", ":", " ">> \o cache_root >>

\* `content in gitignore_f.read()`: the text occurs in a line of the file
OccursIn(content, lines) ==
    \E i \in 1..Len(lines) :
        \E k \in 0..(Len(lines[i]) - Len(content)) :
            SubSeq(lines[i], k + 1, k + Len(content)) = content

\* the lines write_or_append_gitignore writes
GitignoreBlock(content) ==
    << <<>>, <<>>, <<>>,
       <<"# auto-generated by aiflows, all synced modules will be ignored by default">>,
       content >>

\* write_or_append_gitignore: the file .gitignore after it
write_or_append_gitignore(file, mode, content) ==
    IF file.exists /\ OccursIn(content, file.lines) THEN file
    ELSE IF mode = "w" THEN FileOf(GitignoreBlock(content))
    ELSE FileOf(file.lines \o GitignoreBlock(content))

\* create_empty_flow_mod_file: flow.mod and .gitignore after it
create_empty_flow_mod_file(file, ignore) ==
    IF file.exists THEN [mod |-> file, gitignore |-> ignore]
    ELSE [mod |-> FileOf(EmptyFlowModFile(SyncRoot, CacheRoot)),
          gitignore |-> write_or_append_gitignore(ignore, "w", <<"*">>)]

\* f.readline(): the next line, empty at the end of the file
ReadLine(f, i) == IF i <= Len(f) THEN f[i] ELSE <<>>

\* ^<key>: (.+)$ : the group, or None
RootMatch(line, key) ==
    IF Len(line) > 3 /\ SubSeq(line, 1, 3) = <<key, ":", " ">>
    THEN SubSeq(line, 4, Len(line))
    ELSE None

\* ^(.+)/(.+) (.+) (.+) -> _/(.+)$ : where "/", " ", " " and " -> _/" can stand
ModLineSplits(line) ==
    LET n == Len(line)
        slash == {i \in 1..n : line[i] = "/"}
        space == {i \in 1..n : line[i] = " "}
        arrow == {i \in 1..n : i + 4 <= n
                                /\ SubSeq(line, i, i + 4) = <<" ", "->", " ", "_", "/">>}
    IN {c \in slash \X space \X space \X arrow :
            /\ 1 < c[1]
            /\ c[1] + 1 < c[2]
            /\ c[2] + 1 < c[3]
            /\ c[3] + 1 < c[4]
            /\ c[4] + 4 < n}

\* the order in which the greedy groups try the splits: longest first group first
LexGE(c, d) ==
    \/ c = d
    \/ \E j \in 1..4 : c[j] > d[j] /\ \A i \in 1..(j - 1) : c[i] = d[i]

\* re.search(flow_mod_spec_pattern, line).groups(), or None
ModLineMatch(line) ==
    LET cands == ModLineSplits(line)
    IN IF cands = {} THEN None
       ELSE LET c == CHOOSE x \in cands : \A y \in cands : LexGE(x, y)
            IN << SubSeq(line, 1, c[1] - 1),
                  SubSeq(line, c[1] + 1, c[2] - 1),
                  SubSeq(line, c[2] + 1, c[3] - 1),
                  SubSeq(line, c[3] + 1, c[4] - 1),
                  SubSeq(line, c[4] + 5, Len(line)) >>

\* the descriptor from_flow_mod_file builds from the groups of one line
ModOfGroups(g, sync_root, cache_root) ==
    LET repo_id == g[1] \o <<"/">> \o g[2]
        sync_dir == PathJoin(sync_root, g[5])
        cache_dir == IF ~is_local_revision(g[3])
                     THEN build_hf_cache_path(repo_id, g[4], cache_root)
                     ELSE sync_dir
    IN FlowModuleSpec(repo_id, g[3], g[4], cache_dir, sync_dir)

\* the while loop of from_flow_mod_file from line i on: the descriptors read, and
\* whether a line failed to match
RECURSIVE ParseMods(_, _, _, _)
ParseMods(f, i, sync_root, cache_root) ==
    LET line == Strip(ReadLine(f, i))
    IN IF line = <<>> THEN [err |-> FALSE, list |-> <<>>]
       ELSE LET g == ModLineMatch(line)
            IN IF g = None THEN [err |-> TRUE, list |-> <<>>]
               ELSE LET rest == ParseMods(f, i + 1, sync_root, cache_root)
                    IN [err |-> rest.err,
                        list |-> <<ModOfGroups(g, sync_root, cache_root)>> \o rest.list]

\* FlowModuleSpecSummary.from_flow_mod_file on the file with lines f: a summary
\* (status "ok") or status "ValueError"
ParseLines(f) ==
    IF \E i \in 1..Len(REVISION_FILE_HEADER) :
           Strip(REVISION_FILE_HEADER[i]) # Strip(ReadLine(f, i))
    THEN [status |-> "ValueError"]
    ELSE LET h == Len(REVISION_FILE_HEADER)
             sync_root == RootMatch(Strip(ReadLine(f, h + 1)), "sync_root")
             cache_root == RootMatch(Strip(ReadLine(f, h + 2)), "cache_root")
         IN IF sync_root = None \/ cache_root = None THEN [status |-> "ValueError"]
            ELSE LET r == ParseMods(f, h + 3, sync_root, cache_root)
                 IN IF r.err THEN [status |-> "ValueError"]
                    ELSE FlowModuleSpecSummary(sync_root, cache_root, r.list)

\* the mutation of from_flow_mod_file that reads the two roots wherever the file
\* is long enough and takes the lines after them for dependencies
FromFlowModFileLenient(file) ==
    IF ~file.exists THEN [status |-> "None"]
    ELSE LET h == Len(REVISION_FILE_HEADER)
             r == ParseMods(file.lines, h + 3, SyncRoot, CacheRoot)
         IN IF r.err THEN [status |-> "ValueError"]
            ELSE FlowModuleSpecSummary(SyncRoot, CacheRoot, r.list)

\* FlowModuleSpecSummary.from_flow_mod_file: status "None" when there is no file
from_flow_mod_file(file) ==
    IF ~file.exists THEN [status |-> "None"] ELSE ParseLines(file.lines)

\* ------------------------------------------------------------ directories
\* what a path of the file system holds: nothing, a regular file with its content,
\* a directory with its entries (name -> node), a symbolic link with its target,
\* or something that is none of these
Absent == [k |-> "absent"]

FNode(b) == [k |-> "file", b |-> b]

DNode(e) == [k |-> "dir", e |-> e]

LNode(to) == [k |-> "link", to |-> to]

Other == [k |-> "other"]

\* entry.name.startswith(".") or entry.name == "__pycache__", on the names used
SkippedNames == {".gitattributes", "__pycache__"}

\* the entry of a directory, Absent when the node is no directory or has no such entry
Entry(node, name) ==
    IF node.k = "dir" /\ name \in DOMAIN node.e THEN node.e[name] ELSE Absent

\* filecmp.cmp(cache file, sync path, shallow=False) for a regular cache file:
\* "pass" (equal), "mod" (different), "err" (os.stat of the sync path raises)
FileCmp(s, c) ==
    IF s.k = "absent" THEN "err"
    ELSE IF s.k = "file" /\ s.b = c.b THEN "pass"
    ELSE "mod"

\* is_sync_dir_modified(sync_dir, cache_dir) on what the two paths hold.  os.scandir
\* yields the entries in no defined order and the loop returns at the first entry
\* that decides, so the result is one of a set: "mod" (True), "same" (False),
\* "err" (an exception).  The recursive call's result is read as dir_same.
RECURSIVE is_sync_dir_modified(_, _)
is_sync_dir_modified(sync, cache) ==
    IF cache.k # "dir" THEN {"err"}
    ELSE LET names == DOMAIN cache.e \ SkippedNames
             sub(n) == is_sync_dir_modified(Entry(sync, n), cache.e[n])
             out(n) ==
                 IF cache.e[n].k = "file" THEN {FileCmp(Entry(sync, n), cache.e[n])}
                 ELSE IF cache.e[n].k = "dir"
                 THEN (IF "same" \in sub(n) THEN {"mod"} ELSE {})
                      \cup (IF "mod" \in sub(n) THEN {"pass"} ELSE {})
                      \cup (IF "err" \in sub(n) THEN {"err"} ELSE {})
                 ELSE {"err"}
         IN (IF \A n \in names : "pass" \in out(n) THEN {"same"} ELSE {})
            \cup UNION {out(n) \ {"pass"} : n \in names}

\* ------------------------------------------------------------- the world
\* the repositories of the registry: one plain, one whose user name starts with a digit
Repos ==
    { <<"acme", "/", "widgets">>, <<"3", "d", "/", "m">>, <<"user_", "3", "d", "/", "m">> }

\* the commits of a repository, oldest first
Commits == << <<"h1">>, <<"h2">>, <<"h3">> >>

RemoteRevisions == { <<"main">>, <<"dev">> }

\* the commit the registry starts with at a revision label
FirstCommit(revision) == IF revision = <<"main">> THEN Commits[1] ELSE Commits[2]

\* the commit after a commit, the same when it is the newest
NextCommit(h) ==
    LET i == CHOOSE n \in 1..Len(Commits) : Commits[n] = h
    IN IF i < Len(Commits) THEN Commits[i + 1] ELSE h

\* the content of the commits: without and with a subdirectory
FlatTree(b) ==
    DNode("flow.py" :> FNode(b) @@ "pip_requirements.txt" :> FNode(0)
          @@ ".gitattributes" :> FNode(0))

NestedTree(b) ==
    DNode("flow.py" :> FNode(b) @@ "pip_requirements.txt" :> FNode(0)
          @@ "sub" :> DNode("util.py" :> FNode(b)))

\* a commit without the requirements file
BareTree(b) == DNode("flow.py" :> FNode(b))

\* the repository whose newer commits have no requirements file
Bare == <<"3", "d", "/", "m">>

\* the snapshot of a commit of a repository
SnapshotTree(repo_id, commit) ==
    IF commit = Commits[1] THEN FlatTree(1)
    ELSE IF repo_id = Bare THEN BareTree(2)
    ELSE IF commit = Commits[2] THEN NestedTree(2)
    ELSE FlatTree(3)

\* the content of the local directories
LocalTree == DNode("flow.py" :> FNode(3) @@ "pip_requirements.txt" :> FNode(0))

\* huggingface_hub.snapshot_download(repo_id, cache_dir, revision): the snapshot path
SnapshotPath(repo_id, commit, cache_root) ==
    LET ss == Segments(repo_id)
        folder == <<"models", "--">> \o ss[1] \o <<"--">> \o JoinSegments(Tail(ss))
    IN PathJoin(cache_root, folder \o <<"/", "snapshots", "/">> \o commit)

\* the snapshots of the cache, by path (the cache is content-addressed and the
\* program never removes from it)
CachePaths ==
    {SnapshotPath(r, h, CacheRoot) : r \in Repos, h \in Range(Commits)}

CacheNode(path) ==
    LET rh == CHOOSE x \in Repos \X Range(Commits) :
                  SnapshotPath(x[1], x[2], CacheRoot) = path
    IN SnapshotTree(rh[1], rh[2])

\* what a path holds, a link followed to its target
NodeAt(fs, path) ==
    IF path \in CachePaths THEN CacheNode(path)
    ELSE IF path \in LocalDirs THEN LocalTree
    ELSE IF path \in DOMAIN fs
    THEN (IF fs[path].k = "link"
          THEN (IF fs[path].to \in LocalDirs THEN LocalTree ELSE Absent)
          ELSE fs[path])
    ELSE Absent

\* ------------------------------------------------------------ validation
\* a dependency: dep["url"], dep.get("revision") (None when the key is missing),
\* dep.get("overwrite", False)
Dep(url, revision, overwrite) ==
    [url |-> url, revision |-> revision, overwrite |-> overwrite]

\* positions at which ^(\w+)/(\w+)$ can split the url
UrlSplits(url) ==
    {i \in 1..Len(url) : /\ url[i] = "/"
                          /\ IsWord(SubSeq(url, 1, i - 1))
                          /\ IsWord(SubSeq(url, i + 1, Len(url)))}

\* the directories and the other files of a disk, and the working directory of
\* the calls modelled
Host == [dirs |-> LocalDirs, files |-> {}]

HostCwd == <<"/", "w">>

\* os.path.abspath(p) in the working directory cwd
Abspath(cwd, p) == PathJoin(cwd, p)

\* os.path.exists(p) and os.path.isdir(p) in the working directory cwd
ExistsIn(disk, cwd, p) == Abspath(cwd, p) \in disk.dirs \cup disk.files

IsDirIn(disk, cwd, p) == Abspath(cwd, p) \in disk.dirs

\* validate_and_augment_dependency on a disk and in a working directory: status
\* "ValueError", or status "ok" with dep_is_local, dep["mod_name"] and
\* dep["revision"]
validate_in(disk, cwd, dep) ==
    IF UrlSplits(dep.url) = {} THEN [status |-> "ValueError"]
    ELSE LET i == CHOOSE j \in UrlSplits(dep.url) : TRUE
             username == SubSeq(dep.url, 1, i - 1)
             repo_name == SubSeq(dep.url, i + 1, Len(dep.url))
             user == IF IsDigitPrefixed(username) THEN <<"user_">> \o username
                     ELSE username
             revision == IF dep.revision = None THEN DEFAULT_REMOTE_REVISION
                         ELSE dep.revision
             ok(local) == [status |-> "ok", dep_is_local |-> local,
                           mod_name |-> user \o <<"/">> \o repo_name,
                           revision |-> IF local THEN Abspath(cwd, revision)
                                        ELSE revision]
         IN IF IsDigitPrefixed(repo_name) THEN [status |-> "ValueError"]
            ELSE IF ~ExistsIn(disk, cwd, revision)
            THEN (IF \E j \in 1..Len(revision) : revision[j] \notin WordAtoms
                  THEN [status |-> "ValueError"] ELSE ok(FALSE))
            ELSE IF ~IsDirIn(disk, cwd, revision) THEN [status |-> "ValueError"]
            ELSE IF \E j \in 1..Len(revision) :
                        revision[j] = DEFAULT_FLOW_MODULE_FOLDER[1]
            THEN [status |-> "ValueError"]
            ELSE ok(TRUE)

\* validate_and_augment_dependency in the working directory and on the disk of the
\* calls modelled
validate_and_augment_dependency(dep) == validate_in(Host, HostCwd, dep)

\* --------------------------------------------------------------- fetchers
\* is_local_sync_dir_valid: os.path.isdir(sync_dir) or os.path.islink(sync_dir)
is_local_sync_dir_valid(fs, sync_dir) ==
    sync_dir \in DOMAIN fs /\ fs[sync_dir].k \in {"dir", "link"}

\* extract_commit_hash_from_cache_mod_dir
extract_commit_hash_from_cache_mod_dir(cache_mod_dir) == Basename(cache_mod_dir)

\* the mutation of retrive_commit_hash_from_remote that answers with the newest
\* commit of the repository, whatever the revision
RetrieveNewestCommit(repo_id, revision) == Commits[Len(Commits)]

\* retrive_commit_hash_from_remote: the commit now at the revision label
retrive_commit_hash_from_remote(repo_id, revision) == upstream[<<repo_id, revision>>]

\* fetch_remote, the revision resolved to commit hc by the first snapshot_download
\* and to hl by the second: the descriptor and the file system after it
fetch_remote(fs, repo_id, revision, sync_dir, cache_root, hc, hl) ==
    LET cache_mod_dir == SnapshotPath(repo_id, hc, cache_root)
        commit_hash == extract_commit_hash_from_cache_mod_dir(cache_mod_dir)
    IN [spec |-> FlowModuleSpec(repo_id, revision, commit_hash, cache_mod_dir, sync_dir),
        fs |-> [fs EXCEPT ![sync_dir] = SnapshotTree(repo_id, hl)],
        removed |-> is_local_sync_dir_valid(fs, sync_dir)]

\* the mutation of fetch_local that copies the directory (the copytree it once was)
FetchLocalCopy(fs, repo_id, file_path, sync_dir) ==
    [spec |-> FlowModuleSpec(repo_id, file_path, NO_COMMIT_HASH, file_path, sync_dir),
     fs |-> [fs EXCEPT ![sync_dir] = LocalTree],
     removed |-> is_local_sync_dir_valid(fs, sync_dir)]

\* fetch_local: the descriptor and the file system after it
fetch_local(fs, repo_id, file_path, sync_dir) ==
    [spec |-> FlowModuleSpec(repo_id, file_path, NO_COMMIT_HASH, file_path, sync_dir),
     fs |-> [fs EXCEPT ![sync_dir] = LNode(file_path)],
     removed |-> is_local_sync_dir_valid(fs, sync_dir)]

\* ---------------------------------------------------------- reconciliation
\* what the reconciliation of one dependency did: how it ended ("ok" or the
\* exception), the descriptor returned, the file system after it, and what it
\* called on the way
Outcome(status, spec, fs, branch, fetched, removed, prompt, answer, chk) ==
    [status |-> status, spec |-> spec, fs |-> fs, branch |-> branch,
     fetched |-> fetched, removed |-> removed, prompt |-> prompt, answer |-> answer,
     nLatest |-> chk.nLatest, nIsMod |-> chk.nIsMod,
     remote_commit_hash |-> chk.remote_commit_hash, mod |-> chk.mod]

\* no call of retrive_commit_hash_from_remote or is_sync_dir_modified
NoChecks == [remote_commit_hash |-> <<>>, mod |-> "none", nLatest |-> 0, nIsMod |-> 0]

\* the mutation of keep previous that puts the pristine snapshot back at the sync
\* location
KeptRestored(fs, prev, branch, prompt, answer, chk) ==
    Outcome("ok", prev, [fs EXCEPT ![prev.sync_dir] = NodeAt(fs, prev.cache_dir)],
            branch, FALSE, FALSE, prompt, answer, chk)

\* `synced_flow_mod_spec = previous_synced_flow_mod_spec`: nothing is fetched
Kept(fs, prev, branch, prompt, answer, chk) ==
    Outcome("ok", prev, fs, branch, FALSE, FALSE, prompt, answer, chk)

Fetched(f, branch, prompt, answer, chk) ==
    Outcome("ok", f.spec, f.fs, branch, TRUE, f.removed, prompt, answer, chk)

Raised(status, fs, branch, chk) ==
    Outcome(status, NoSpec, fs, branch, FALSE, FALSE, "none", FALSE, chk)

\* sync_remote_dep, lines 662-668: the commit hash of the remote revision and the
\* modification status of the working copy, one record per possible result
RemoteChecks(fs, prev, repo_id, revision, sync_dir) ==
    {[remote_commit_hash |-> retrive_commit_hash_from_remote(repo_id, revision),
      mod |-> m, nLatest |-> 1, nIsMod |-> 1] :
        m \in is_sync_dir_modified(NodeAt(fs, sync_dir), NodeAt(fs, prev.cache_dir))}

\* the mutation of the decision that asks before it fetches a new commit
RemoteDecideAsking(fs, prev, repo_id, revision, sync_dir, cache_root, overwrite, chk) ==
    LET flow_mod_id == build_mod_id(repo_id, revision)
        h == upstream[<<repo_id, revision>>]
        f == fetch_remote(fs, repo_id, revision, sync_dir, cache_root, h, h)
    IN IF chk.mod = "err" THEN {Raised("OSError", fs, "checks", chk)}
       ELSE IF overwrite
       THEN {Kept(fs, prev, "overwrite", "overwrite", FALSE, chk),
             Fetched(f, "overwrite", "overwrite", TRUE, chk)}
       ELSE IF mod_id(prev) # flow_mod_id
       THEN {Kept(fs, prev, "revision", "revision", FALSE, chk),
             Fetched(f, "revision", "revision", TRUE, chk)}
       ELSE IF chk.remote_commit_hash = prev.commit_hash
       THEN {Kept(fs, prev, "skip", "none", FALSE, chk)}
       ELSE IF chk.mod # "mod"
       THEN {Kept(fs, prev, "refetch", "revision", FALSE, chk),
             Fetched(f, "refetch", "revision", TRUE, chk)}
       ELSE {Kept(fs, prev, "preserve", "none", FALSE, chk)}

\* sync_remote_dep, lines 670-725: the decision once the checks are made
RemoteDecide(fs, prev, repo_id, revision, sync_dir, cache_root, overwrite, chk) ==
    LET flow_mod_id == build_mod_id(repo_id, revision)
        h == upstream[<<repo_id, revision>>]
        f == fetch_remote(fs, repo_id, revision, sync_dir, cache_root, h, h)
    IN IF chk.mod = "err" THEN {Raised("OSError", fs, "checks", chk)}
       ELSE IF overwrite
       THEN {Kept(fs, prev, "overwrite", "overwrite", FALSE, chk),
             Fetched(f, "overwrite", "overwrite", TRUE, chk)}
       ELSE IF mod_id(prev) # flow_mod_id
       THEN {Kept(fs, prev, "revision", "revision", FALSE, chk),
             Fetched(f, "revision", "revision", TRUE, chk)}
       ELSE IF chk.remote_commit_hash = prev.commit_hash
       THEN {Kept(fs, prev, "skip", "none", FALSE, chk)}
       ELSE IF chk.mod # "mod"
       THEN {Fetched(f, "refetch", "none", FALSE, chk)}
       ELSE {Kept(fs, prev, "preserve", "none", FALSE, chk)}

\* the mutation of sync_remote_dep that makes the two checks only when the
\* decision reads them
SyncRemoteDepLazy(fs, prev, repo_id, mod_name, revision, sync_root, cache_root, overwrite) ==
    LET sync_dir == PathJoin(sync_root, mod_name)
        h == upstream[<<repo_id, revision>>]
    IN IF prev = NoSpec
       THEN {Fetched(fetch_remote(fs, repo_id, revision, sync_dir, cache_root, h, h),
                     "fresh", "none", FALSE, NoChecks)}
       ELSE IF sync_dir # prev.sync_dir
       THEN {Raised("AssertionError", fs, "assert", NoChecks)}
       ELSE IF overwrite \/ mod_id(prev) # build_mod_id(repo_id, revision)
       THEN RemoteDecide(fs, prev, repo_id, revision, sync_dir, cache_root, overwrite,
                         NoChecks)
       ELSE UNION {RemoteDecide(fs, prev, repo_id, revision, sync_dir, cache_root,
                                overwrite, chk) :
                       chk \in RemoteChecks(fs, prev, repo_id, revision, sync_dir)}

\* sync_remote_dep: every way the call can end, over the answers to its question
\* and the orders of the directory scan
sync_remote_dep(fs, prev, repo_id, mod_name, revision, sync_root, cache_root, overwrite) ==
    LET sync_dir == PathJoin(sync_root, mod_name)
        h == upstream[<<repo_id, revision>>]
    IN IF prev = NoSpec
       THEN {Fetched(fetch_remote(fs, repo_id, revision, sync_dir, cache_root, h, h),
                     "fresh", "none", FALSE, NoChecks)}
       ELSE IF sync_dir # prev.sync_dir
       THEN {Raised("AssertionError", fs, "assert", NoChecks)}
       ELSE UNION {RemoteDecide(fs, prev, repo_id, revision, sync_dir, cache_root,
                                overwrite, chk) :
                       chk \in RemoteChecks(fs, prev, repo_id, revision, sync_dir)}

\* the mutation of sync_local_dep that links the directory again whenever it is asked
SyncLocalDepAlwaysFetch(fs, prev, repo_id, mod_name, revision, sync_root, overwrite) ==
    {Fetched(fetch_local(fs, repo_id, revision, PathJoin(sync_root, mod_name)),
             "fresh", "none", FALSE, NoChecks)}

\* sync_local_dep: every way the call can end, over the answers to its question
sync_local_dep(fs, prev, repo_id, mod_name, revision, sync_root, overwrite) ==
    LET flow_mod_id == build_mod_id(repo_id, revision)
        sync_dir == PathJoin(sync_root, mod_name)
        f == fetch_local(fs, repo_id, revision, sync_dir)
    IN IF ~PathIsDir(revision) THEN {Raised("ValueError", fs, "isdir", NoChecks)}
       ELSE IF prev = NoSpec THEN {Fetched(f, "fresh", "none", FALSE, NoChecks)}
       ELSE IF sync_dir # prev.sync_dir
       THEN {Raised("AssertionError", fs, "assert", NoChecks)}
       ELSE IF overwrite
       THEN {Kept(fs, prev, "overwrite", "overwrite", FALSE, NoChecks),
             Fetched(f, "overwrite", "overwrite", TRUE, NoChecks)}
       ELSE IF mod_id(prev) # flow_mod_id
       THEN {Kept(fs, prev, "revision", "revision", FALSE, NoChecks),
             Fetched(f, "revision", "revision", TRUE, NoChecks)}
       ELSE {Kept(fs, prev, "skip", "none", FALSE, NoChecks)}

\* the mutation of install_requirements that never finds the file
RequirementsNeverFound(fs, spec) == FALSE

\* install_requirements, line 469: os.path.exists(<sync_dir>/pip_requirements.txt)
HasRequirements(fs, spec) ==
    Entry(NodeAt(fs, spec.sync_dir), "pip_requirements.txt").k # "absent"

\* ----------------------------------------------------------------- driver
\* the dependencies the calls are made with
DepUniverse ==
    {Dep(<<"acme", "/", "widgets">>, rev, ow) :
        rev \in RemoteRevisions \cup LocalDirs, ow \in BOOLEAN}
    \cup {Dep(<<"3", "d", "/", "m">>, rev, FALSE) : rev \in RemoteRevisions}

\* the dependency lists: any single dependency, and the longer lists of
\* dependencies without an overwrite flag of their own
DepLists ==
    [1..1 -> DepUniverse]
    \cup UNION {[1..n -> {d \in DepUniverse : ~d.overwrite}] : n \in 2..MaxReqs}

\* the repository that receives new commits and whose working copy the user changes
Edited == <<"acme", "/", "widgets">>

EditedDir ==
    PathJoin(SyncRoot, validate_and_augment_dependency(Dep(Edited, None, FALSE)).mod_name)

\* the sync locations of the repositories
SyncDirs ==
    {PathJoin(SyncRoot, validate_and_augment_dependency(Dep(r, None, FALSE)).mod_name) :
        r \in Repos}

NoLast == [n |-> 0]

NoSummary == [status |-> "None"]

NoProbe == [kind |-> "none"]

\* the threads of the process
Threads == {1, 2}

\* a thread that has not called _sync_dependencies
NoThreads ==
    [t \in Threads |-> [pc |-> "out", reqs |-> <<>>, allOw |-> FALSE, pos |-> 0,
                        summary |-> NoSummary]]

\* call.status: "none" before the first call, "run" during a call, "failed" after a
\* call that raised, "done" after a call that returned, "again" after a call that
\* returned and that is called once more with the same arguments
NewCall(status, fresh, repeat) ==
    [status |-> status, fetches |-> 0, yes |-> 0, fresh |-> fresh, repeat |-> repeat]

Init ==
    /\ upstream = [x \in Repos \X RemoteRevisions |-> FirstCommit(x[2])]
    /\ wc = [p \in SyncDirs |-> Absent]
    /\ mf = NoFile
    /\ pc = "idle"
    /\ reqs = <<>>
    /\ allOw = FALSE
    /\ pos = 0
    /\ summary = NoSummary
    /\ last = NoLast
    /\ call = NewCall("none", FALSE, FALSE)
    /\ calls = 0
    /\ advn = 0
    /\ editn = 0
    /\ lock = 0
    /\ gitignore = NoFile
    /\ threads = NoThreads
    /\ probe = NoProbe

\* _sync_dependencies, lines 880-896: take _lock, create flow.mod when there is
\* none, and read it
SyncBegin(deps, all_overwrite) ==
    /\ pc = "idle"
    /\ IF call.status = "again"
       THEN deps = reqs /\ all_overwrite = allOw /\ calls' = calls
       ELSE calls < MaxCalls /\ calls' = calls + 1
    /\ LET file == IF mf.exists THEN mf
                   ELSE FileOf(EmptyFlowModFile(SyncRoot, CacheRoot))
           flow_mod_summary == from_flow_mod_file(file)
       IN /\ mf' = file
          /\ gitignore' = create_empty_flow_mod_file(mf, gitignore).gitignore
          /\ summary' = flow_mod_summary
          /\ pc' = IF flow_mod_summary.status = "ok" THEN "run" ELSE "idle"
          /\ call' = NewCall(IF flow_mod_summary.status = "ok" THEN "run" ELSE "failed",
                             ~mf.exists, call.status = "again")
    /\ reqs' = deps
    /\ allOw' = all_overwrite
    /\ pos' = 0
    /\ last' = NoLast
    /\ UNCHANGED <<lock, threads, upstream, wc, advn, editn, probe>>

\* the mutation of the loop that takes the dependencies from the last to the first
NextRequestReversed(deps, k) == deps[Len(deps) - k]

\* `for dep in dependencies`: the dependency of the turn after k turns
NextRequest(deps, k) == deps[k + 1]

\* the mutation of the loop that goes on after a turn that raised
LoopIgnoresFailure(status) == TRUE

\* whether the loop goes on after a turn: an exception leaves the function
LoopGoesOn(status) == status = "ok"

\* _sync_dependencies, lines 899-930: one turn of the loop over the dependencies;
\* when it raises, _lock is released and flow.mod is not written
SyncDep ==
    /\ pc = "run"
    /\ pos < Len(reqs)
    /\ LET dep == NextRequest(reqs, pos)
           v == validate_and_augment_dependency(dep)
       IN IF v.status # "ok"
          THEN /\ pc' = "idle"
               /\ call' = [call EXCEPT !.status = "failed"]
               /\ last' = [n |-> pos + 1, dep |-> dep, status |-> v.status]
               /\ UNCHANGED <<wc, summary, pos>>
          ELSE LET prev == get_mod(summary.mods, dep.url)
                   overwrite == allOw \/ dep.overwrite
                   sync_dir == PathJoin(SyncRoot, v.mod_name)
                   outs == IF v.dep_is_local
                           THEN sync_local_dep(wc, prev, dep.url, v.mod_name, v.revision,
                                               SyncRoot, overwrite)
                           ELSE sync_remote_dep(wc, prev, dep.url, v.mod_name,
                                                v.revision, SyncRoot, CacheRoot,
                                                overwrite)
               IN \E r \in outs :
                    LET status == IF r.status # "ok" THEN r.status
                                  ELSE IF ~HasRequirements(r.fs, r.spec)
                                  THEN "ValueError"
                                  ELSE "ok"
                    IN /\ wc' = r.fs
                       /\ summary' = IF r.status = "ok"
                                     THEN [summary EXCEPT !.mods = add_mod(@, r.spec)]
                                     ELSE summary
                       /\ last' = [n |-> pos + 1, dep |-> dep, status |-> status,
                                   local |-> v.dep_is_local, revision |-> v.revision,
                                   mod_name |-> v.mod_name, overwrite |-> overwrite,
                                   prev |-> prev,
                                   before |-> wc[sync_dir],
                                   pristine |-> IF prev = NoSpec THEN Absent
                                                ELSE NodeAt(wc, prev.cache_dir),
                                   spec |-> r.spec, branch |-> r.branch,
                                   fetched |-> r.fetched, removed |-> r.removed,
                                   prompt |-> r.prompt, answer |-> r.answer,
                                   nLatest |-> r.nLatest, nIsMod |-> r.nIsMod,
                                   remote_commit_hash |-> r.remote_commit_hash,
                                   mod |-> r.mod]
                       /\ pos' = IF LoopGoesOn(status) THEN pos + 1 ELSE pos
                       /\ pc' = IF LoopGoesOn(status) THEN "run" ELSE "idle"
                       /\ call' = [call EXCEPT
                                      !.status = IF LoopGoesOn(status) THEN "run"
                                                 ELSE "failed",
                                      !.fetches = @ + (IF r.fetched THEN 1 ELSE 0),
                                      !.yes = @ + (IF r.answer THEN 1 ELSE 0)]
    /\ UNCHANGED <<gitignore, lock, threads, upstream, mf, reqs, allOw, calls, advn, editn, probe>>

\* _sync_dependencies, lines 932-937: write flow.mod, release _lock and return.
\* The arguments and the last turn of the loop are remembered only when the caller
\* makes the same call again.
SyncEnd(again) ==
    /\ pc = "run"
    /\ pos = Len(reqs)
    /\ again => ~call.repeat
    /\ mf' = FileOf(write_flow_mod_summary(summary))
    /\ pc' = "idle"
    /\ call' = [call EXCEPT !.status = IF again THEN "again" ELSE "done"]
    /\ reqs' = IF again THEN reqs ELSE <<>>
    /\ allOw' = IF again THEN allOw ELSE FALSE
    /\ pos' = 0
    /\ summary' = NoSummary
    /\ last' = IF again THEN last ELSE NoLast
    /\ UNCHANGED <<gitignore, lock, threads, upstream, wc, calls, advn, editn, probe>>

\* ------------------------------------------------------------ environment
\* between two calls that are not a call and its repetition
Quiet == pc = "idle" /\ call.status # "again"

\* the registry: a new commit at a revision label
Advance(revision) ==
    /\ Quiet
    /\ advn < MaxAdvance
    /\ NextCommit(upstream[<<Edited, revision>>]) # upstream[<<Edited, revision>>]
    /\ upstream' = [upstream EXCEPT ![<<Edited, revision>>] = NextCommit(@)]
    /\ advn' = advn + 1
    /\ UNCHANGED <<gitignore, lock, threads, wc, mf, pc, reqs, allOw, pos, summary, last, call, calls, editn, probe>>

\* a directory with one entry set
WithEntry(node, name, x) ==
    DNode([n \in DOMAIN node.e \cup {name} |-> IF n = name THEN x ELSE node.e[n]])

\* a directory with one entry removed
WithoutEntry(node, name) == DNode([n \in DOMAIN node.e \ {name} |-> node.e[n]])

\* the user changes a byte of a file of the working copy, at the top or one level
\* down
EditFile(p) ==
    /\ Quiet
    /\ editn < MaxEdits
    /\ wc[p].k = "dir"
    /\ \/ \E n \in DOMAIN wc[p].e \ {"pip_requirements.txt"} :
             /\ wc[p].e[n].k = "file"
             /\ wc' = [wc EXCEPT ![p] = WithEntry(@, n, FNode(9))]
       \/ \E d \in DOMAIN wc[p].e :
             /\ wc[p].e[d].k = "dir"
             /\ \E n \in DOMAIN wc[p].e[d].e :
                   /\ wc[p].e[d].e[n].k = "file"
                   /\ wc' = [wc EXCEPT ![p] =
                                WithEntry(@, d, WithEntry(wc[p].e[d], n, FNode(9)))]
    /\ editn' = editn + 1
    /\ UNCHANGED <<gitignore, lock, threads, upstream, mf, pc, reqs, allOw, pos, summary, last, call, calls, advn, probe>>

\* the user adds a file to the working copy
AddFile(p) ==
    /\ Quiet
    /\ editn < MaxEdits
    /\ wc[p].k = "dir"
    /\ "notes.txt" \notin DOMAIN wc[p].e
    /\ wc' = [wc EXCEPT ![p] = WithEntry(@, "notes.txt", FNode(0))]
    /\ editn' = editn + 1
    /\ UNCHANGED <<gitignore, lock, threads, upstream, mf, pc, reqs, allOw, pos, summary, last, call, calls, advn, probe>>

\* the user deletes a file of the working copy
DeleteFile(p) ==
    /\ Quiet
    /\ editn < MaxEdits
    /\ wc[p].k = "dir"
    /\ "flow.py" \in DOMAIN wc[p].e
    /\ wc' = [wc EXCEPT ![p] = WithoutEntry(@, "flow.py")]
    /\ editn' = editn + 1
    /\ UNCHANGED <<gitignore, lock, threads, upstream, mf, pc, reqs, allOw, pos, summary, last, call, calls, advn, probe>>

\* the working copy is gone: a fetch that stopped between remove_dir_or_link and
\* the download or the link, or the user removed it
LoseCopy(p) ==
    /\ Quiet
    /\ editn < MaxEdits
    /\ wc[p].k \in {"dir", "link"}
    /\ wc' = [wc EXCEPT ![p] = Absent]
    /\ editn' = editn + 1
    /\ UNCHANGED <<gitignore, lock, threads, upstream, mf, pc, reqs, allOw, pos, summary, last, call, calls, advn, probe>>

\* the lines of flow.mod with a header line overwritten, with the key of the
\* sync_root line changed, or without the cache_root line
Damaged(lines, how) ==
    LET h == Len(REVISION_FILE_HEADER)
    IN IF how = "header" THEN [lines EXCEPT ![h - 1] = <<"edited">>]
       ELSE IF how = "sync_root"
       THEN [lines EXCEPT ![h + 1] = <<"root", ":", " ">> \o SyncRoot]
       ELSE SubSeq(lines, 1, h + 1) \o SubSeq(lines, h + 3, Len(lines))

\* the user edits flow.mod
DamageFile(how) ==
    /\ Quiet
    /\ editn < MaxEdits
    /\ mf.exists
    /\ from_flow_mod_file(mf).status = "ok"
    /\ mf' = FileOf(Damaged(mf.lines, how))
    /\ editn' = editn + 1
    /\ UNCHANGED <<gitignore, lock, threads, upstream, wc, pc, reqs, allOw, pos, summary, last, call, calls, advn, probe>>

Next ==
    \/ \E deps \in DepLists, all_overwrite \in BOOLEAN : SyncBegin(deps, all_overwrite)
    \/ SyncDep
    \/ \E again \in BOOLEAN : SyncEnd(again)
    \/ \E rev \in RemoteRevisions : Advance(rev)
    \/ EditFile(EditedDir)
    \/ AddFile(EditedDir)
    \/ DeleteFile(EditedDir)
    \/ LoseCopy(EditedDir)
    \/ \E how \in {"header", "sync_root", "cache_root"} : DamageFile(how)

Spec == Init /\ [][Next]_vars

\* ------------------------------------------- the modification check alone
\* the depth of the pristine trees the check is applied to
MaxDepth == 2

FileNames == {"flow.py", "util.py"}

Contents == {1, 2}

\* the directories that hold files only
FlatDirs ==
    {DNode(f) : f \in UNION {[S -> {FNode(b) : b \in Contents}] :
                                 S \in SUBSET FileNames \ {{}}}}

\* the pristine trees with directories nested at most d deep
RECURSIVE Trees(_)
Trees(d) ==
    IF d = 0 THEN FlatDirs
    ELSE Trees(d - 1) \cup {WithEntry(t, "sub", s) : t \in FlatDirs, s \in Trees(d - 1)}

FilesOf(t) == {n \in DOMAIN t.e : t.e[n].k = "file"}

DirsOf(t) == {n \in DOMAIN t.e : t.e[n].k = "dir"}

\* the trees that differ from t in one byte of one file, at any depth
RECURSIVE Flips(_)
Flips(t) ==
    {WithEntry(t, n, FNode(0)) : n \in FilesOf(t)}
    \cup UNION {{WithEntry(t, n, s) : s \in Flips(t.e[n])} : n \in DirsOf(t)}

\* the trees that are t with one more file, in any directory
RECURSIVE Adds(_)
Adds(t) ==
    {WithEntry(t, "notes.txt", FNode(0))}
    \cup UNION {{WithEntry(t, n, s) : s \in Adds(t.e[n])} : n \in DirsOf(t)}

\* a pristine tree, a working copy of it, and that working copy with a file added
Probe(kind, pristine, work, added) ==
    [kind |-> kind, pristine |-> pristine, work |-> work, added |-> added,
     result |-> "none", resultAdded |-> "none"]

Probes ==
    UNION {{Probe("equal", t, t, a) : a \in Adds(t)} : t \in Trees(MaxDepth)}
    \cup UNION {UNION {{Probe("flip", t, w, a) : a \in Adds(w)} : w \in Flips(t)} :
                    t \in Trees(MaxDepth)}

InitDetect ==
    /\ upstream = [x \in Repos \X RemoteRevisions |-> FirstCommit(x[2])]
    /\ wc = [p \in SyncDirs |-> Absent]
    /\ mf = NoFile
    /\ pc = "idle"
    /\ reqs = <<>>
    /\ allOw = FALSE
    /\ pos = 0
    /\ summary = NoSummary
    /\ last = NoLast
    /\ call = NewCall("none", FALSE, FALSE)
    /\ calls = 0
    /\ advn = 0
    /\ editn = 0
    /\ lock = 0
    /\ gitignore = NoFile
    /\ threads = NoThreads
    /\ probe \in Probes

\* is_sync_dir_modified(work, pristine) and is_sync_dir_modified(added, pristine)
Detect ==
    /\ probe.kind # "none"
    /\ probe.result = "none"
    /\ \E r \in is_sync_dir_modified(probe.work, probe.pristine),
          ra \in is_sync_dir_modified(probe.added, probe.pristine) :
          probe' = [probe EXCEPT !.result = r, !.resultAdded = ra]
    /\ UNCHANGED <<gitignore, lock, threads, upstream, wc, mf, pc, reqs, allOw, pos, summary, last, call, calls,
                   advn, editn>>

SpecDetect == InitDetect /\ [][Detect]_vars

\* ------------------------------------------------------------- properties
\* a turn of the loop went through sync_remote_dep or sync_local_dep
Acted == last.n > 0 /\ "branch" \in DOMAIN last

\* the call of that turn has not returned: its manifest is still in memory
InTurn == Acted /\ summary.status = "ok"

\* that turn was for a remote dependency with a previous descriptor
RemotePrev == InTurn /\ ~last.local /\ last.prev # NoSpec

\* the manifest entry of the dependency of that turn
EntryNow == get_mod(summary.mods, last.dep.url)

\* the module id of the request of that turn
RequestId == build_mod_id(last.dep.url, last.revision)

\* no descriptor of the list has the key of another
UniqueKeys(list) ==
    \A i, j \in 1..Len(list) : list[i].repo_id = list[j].repo_id => i = j

\* the descriptors of the dependency lines of a manifest file, one per line
FileEntries(file) ==
    ParseMods(file.lines, Len(REVISION_FILE_HEADER) + 3, SyncRoot, CacheRoot).list

\* the dependency lines of a manifest file
DepLines(file) == SubSeq(file.lines, Len(REVISION_FILE_HEADER) + 3, Len(file.lines))

\* C1: the manifest in memory and the manifest file hold at most one descriptor
\* per origin id, and the descriptor a turn of the loop adds is the entry of its
\* origin id afterwards
C1_OneDescriptorPerOrigin ==
    /\ summary.status = "ok" => UniqueKeys(summary.mods)
    /\ mf.exists => UniqueKeys(FileEntries(mf))
    /\ (pc = "run" /\ Acted /\ last.status = "ok") => EntryNow = last.spec

\* C1: a second descriptor for an origin id replaced the first in a manifest of
\* two origin ids
C1_Replaced ==
    /\ pc = "run" /\ Acted /\ last.status = "ok"
    /\ last.prev # NoSpec /\ last.fetched
    /\ EntryNow # last.prev
    /\ Len(summary.mods) = 2

\* no overwrite flag in the arguments of the call
NoOverwriteFlags == ~allOw /\ \A i \in 1..Len(reqs) : ~reqs[i].overwrite

\* the step that ends a call that repeats the call before it
RepeatEnds == pc = "run" /\ pos = Len(reqs) /\ pc' = "idle" /\ call.repeat

\* C2 as stated: a call that repeats the call before it, without overwrite flags
\* and with nothing changed in between, fetches nothing and writes the same
\* manifest file
C2_IdempotentAsStated ==
    [][(RepeatEnds /\ NoOverwriteFlags) => (call.fetches = 0 /\ mf' = mf)]_vars

\* C2: a call that repeats the call before it, without overwrite flags, with
\* nothing changed in between and with no confirmation answered yes, fetches
\* nothing and writes the same manifest file
C2_Idempotent ==
    [][(RepeatEnds /\ NoOverwriteFlags /\ call.yes = 0)
           => (call.fetches = 0 /\ mf' = mf)]_vars

\* C2: the repetition of a call with two dependencies is about to end, the last
\* one found in sync
C2_Repeated ==
    /\ pc = "run" /\ pos = Len(reqs) /\ call.repeat
    /\ NoOverwriteFlags /\ call.yes = 0
    /\ Len(reqs) = 2 /\ Len(summary.mods) = 2
    /\ last.branch = "skip"

\* C3: the manifest a call is about to write is the manifest read back from the
\* file written
C3_RoundTrip ==
    (pc = "run" /\ pos = Len(reqs))
        => from_flow_mod_file(FileOf(write_flow_mod_summary(summary))) = summary

\* a file of the pristine tree, at any depth and neither hidden nor under
\* __pycache__, is a file with another content in the working copy
RECURSIVE FileDiffers(_, _)
FileDiffers(work, pristine) ==
    /\ pristine.k = "dir"
    /\ \E n \in DOMAIN pristine.e \ SkippedNames :
          LET w == Entry(work, n)
              p == pristine.e[n]
          IN IF p.k = "file" THEN w.k = "file" /\ w.b # p.b
             ELSE IF p.k = "dir" THEN FileDiffers(w, p)
             ELSE FALSE

\* a remote dependency with a previous descriptor, no overwrite, the module id
\* unchanged and another commit at the revision
UpstreamAdvanced ==
    /\ RemotePrev
    /\ ~last.overwrite
    /\ mod_id(last.prev) = RequestId
    /\ last.remote_commit_hash # last.prev.commit_hash

\* C4: when upstream advanced and a file of the working copy differs from the
\* pristine snapshot, the working copy is neither removed nor fetched, nothing
\* is asked and the previous descriptor stays
C4_EditsPreserved ==
    (UpstreamAdvanced /\ FileDiffers(last.before, last.pristine))
        => /\ last.status = "ok"
           /\ ~last.fetched /\ ~last.removed
           /\ last.prompt = "none"
           /\ EntryNow = last.prev

\* C5: when upstream advanced and the working copy equals the pristine snapshot,
\* the dependency is fetched without a question and its entry has the new commit
C5_AutoRefetch ==
    (UpstreamAdvanced /\ last.before = last.pristine)
        => /\ last.fetched
           /\ last.prompt = "none"
           /\ EntryNow.commit_hash = last.remote_commit_hash

\* C6: is_sync_dir_modified is true when one byte of one file differs, false when
\* the working copy equals the pristine tree, and a file added to the working
\* copy does not change its result
C6_IsModified ==
    (probe.kind # "none" /\ probe.result # "none")
        => /\ probe.kind = "flip" => probe.result = "mod"
           /\ probe.kind = "equal" => probe.result = "same"
           /\ probe.resultAdded = probe.result

\* C7: overwrite is the dependency's flag or the call's; when it holds and there
\* is a previous descriptor, the overwrite question is asked, yes fetches and no
\* keeps the previous descriptor without a fetch
C7_OverwriteForcing ==
    (InTurn /\ last.prev # NoSpec)
        => /\ last.overwrite = (last.dep.overwrite \/ allOw)
           /\ last.overwrite =>
                 /\ last.prompt = "overwrite"
                 /\ last.answer => (last.fetched /\ EntryNow = last.spec)
                 /\ ~last.answer => (~last.fetched /\ EntryNow = last.prev)

\* C8: with a previous descriptor, no overwrite and another module id, one
\* question is asked; yes fetches and the entry has the requested revision, no
\* fetches nothing and the entry keeps the previous revision and commit
C8_RevisionChange ==
    (InTurn /\ last.prev # NoSpec /\ ~last.overwrite /\ mod_id(last.prev) # RequestId)
        => /\ last.prompt = "revision"
           /\ last.answer => (last.fetched /\ EntryNow.revision = last.revision)
           /\ ~last.answer =>
                 /\ ~last.fetched
                 /\ EntryNow.revision = last.prev.revision
                 /\ EntryNow.commit_hash = last.prev.commit_hash

\* a call with one remote dependency, begun without a manifest file, ended
FreshRemoteEnded ==
    /\ pc = "idle" /\ call.status \in {"again", "failed"}
    /\ call.fresh /\ Len(reqs) = 1
    /\ Acted /\ ~last.local

\* the dependency line with the relative path given
LineOf(spec, rel) ==
    spec.repo_id \o <<" ">> \o spec.revision \o <<" ">> \o spec.commit_hash
        \o <<" ", "->", " ", "_", "/">> \o rel

FailedInLoop ==
    /\ pc = "idle" /\ call.status = "failed"
    /\ summary.status = "ok"
    /\ from_flow_mod_file(mf).status = "ok"

\* C11: after a call failed at a dependency, flow.mod has the lines of the
\* descriptors the call holds for the dependencies before it
C11_EarlierRecorded ==
    FailedInLoop
        => \A i \in 1..pos :
               reqs[i].url # reqs[pos + 1].url
                   => ModLine(get_mod(summary.mods, reqs[i].url), SyncRoot)
                          \in Range(DepLines(mf))

\* C12: when flow.mod has the entry of the request and nothing is at its sync
\* location, the turn succeeds and the sync location is there again
C12_Recovery ==
    (InTurn /\ last.prev # NoSpec /\ last.before.k = "absent"
        /\ ~last.overwrite /\ mod_id(last.prev) = RequestId)
        => (last.status = "ok" /\ wc[last.prev.sync_dir].k # "absent")

\* C14: a local dependency is linked without a question when it has no previous
\* descriptor, asks the overwrite question under overwrite, asks the revision
\* question when its module id changed, and otherwise keeps the previous
\* descriptor without a fetch; it never looks up the remote commit nor compares
\* the working copy
C14_LocalReconciliation ==
    (InTurn /\ last.local)
        => /\ last.nLatest = 0 /\ last.nIsMod = 0
           /\ last.prev = NoSpec => (last.fetched /\ last.prompt = "none")
           /\ (last.prev # NoSpec /\ last.overwrite) => last.prompt = "overwrite"
           /\ (last.prev # NoSpec /\ ~last.overwrite /\ mod_id(last.prev) # RequestId)
                  => last.prompt = "revision"
           /\ (last.prev # NoSpec /\ ~last.overwrite /\ mod_id(last.prev) = RequestId)
                  => (~last.fetched /\ last.prompt = "none" /\ last.spec = last.prev)

\* C14: a local dependency with an unchanged module id was kept
C14_LocalKept ==
    /\ InTurn /\ last.local
    /\ last.prev # NoSpec /\ ~last.overwrite /\ mod_id(last.prev) = RequestId
    /\ last.branch = "skip"

\* C15: after fetch_local the sync location is a link to the local path, what was
\* there before is removed, and the descriptor has the local path as revision
\* and NO_COMMIT_HASH as commit
C15_LocalLink ==
    (pc = "run" /\ InTurn /\ last.local /\ last.fetched)
        => /\ wc[last.spec.sync_dir] = LNode(last.revision)
           /\ last.removed = (last.before.k # "absent")
           /\ last.spec.revision = last.revision
           /\ last.spec.commit_hash = NO_COMMIT_HASH

\* C15: fetch_local replaced the working copy of a remote dependency by a link
C15_LinkedOverCopy ==
    /\ pc = "run" /\ InTurn /\ last.local /\ last.fetched
    /\ last.before.k = "dir" /\ last.removed

\* the sync location _sync_dependencies gives the repository
SyncDirOf(repo_id) ==
    PathJoin(SyncRoot, validate_and_augment_dependency(Dep(repo_id, None, FALSE)).mod_name)

\* C16: every descriptor of the manifest has the sync location of its origin id
\* under the sync root, and the assertion on the previous descriptor's sync
\* location never fails
C16_SyncLocation ==
    /\ summary.status = "ok"
           => \A i \in 1..Len(summary.mods) :
                  summary.mods[i].sync_dir = SyncDirOf(summary.mods[i].repo_id)
    /\ Acted => last.branch # "assert"

\* C16: a previous descriptor read from flow.mod was reconciled for the
\* repository whose destination differs from its origin id
C16_PrefixedReconciled ==
    /\ InTurn /\ last.prev # NoSpec
    /\ last.dep.url = Bare
    /\ last.prev.sync_dir = PathJoin(SyncRoot, last.mod_name)

\* a header line of the file is not the line of REVISION_FILE_HEADER
HeaderDamaged(file) ==
    \E i \in 1..Len(REVISION_FILE_HEADER) :
        i > Len(file.lines) \/ file.lines[i] # REVISION_FILE_HEADER[i]

\* line i of the file is not "<key>: <value>"
NoRootLine(file, i, key) ==
    \/ i > Len(file.lines)
    \/ Len(file.lines[i]) < 4
    \/ SubSeq(file.lines[i], 1, 3) # <<key, ":", " ">>

\* the header block of the file is malformed
HeaderBlockMalformed(file) ==
    \/ HeaderDamaged(file)
    \/ NoRootLine(file, Len(REVISION_FILE_HEADER) + 1, "sync_root")
    \/ NoRootLine(file, Len(REVISION_FILE_HEADER) + 2, "cache_root")

ManifestLine(kind) ==
    LET a == <<"acme", "/", "widgets">>
    IN CASE kind = "a" ->
                ModLine(FlowModuleSpec(a, <<"main">>, <<"h1">>,
                                       build_hf_cache_path(a, <<"h1">>, CacheRoot),
                                       PathJoin(SyncRoot, a)), SyncRoot)
         [] kind = "b" ->
                ModLine(FlowModuleSpec(Bare, <<"dev">>, <<"h2">>,
                                       build_hf_cache_path(Bare, <<"h2">>, CacheRoot),
                                       PathJoin(SyncRoot, <<"user_">> \o Bare)), SyncRoot)
         [] kind = "bad" -> <<"acme", "/", "widgets", " ", "main">>
         [] kind = "blank" -> <<>>
         [] OTHER -> <<" ">>

\* the files parsed: a well-formed header block followed by up to MaxLines lines,
\* no descriptor line twice
Shapes ==
    {sh \in UNION {[1..n -> {"a", "b", "bad", "blank", "space"}] : n \in 0..MaxLines} :
        \A i, j \in 1..Len(sh) : (i # j /\ sh[i] \in {"a", "b"}) => sh[i] # sh[j]}

ParseProbe(sh) ==
    [kind |-> "parse", shape |-> sh,
     file |-> FileOf(EmptyFlowModFile(SyncRoot, CacheRoot)
                     \o [i \in 1..Len(sh) |-> ManifestLine(sh[i])]),
     status |-> "none", n |-> 0]

InitParse ==
    /\ upstream = [x \in Repos \X RemoteRevisions |-> FirstCommit(x[2])]
    /\ wc = [p \in SyncDirs |-> Absent]
    /\ mf = NoFile
    /\ pc = "idle"
    /\ reqs = <<>>
    /\ allOw = FALSE
    /\ pos = 0
    /\ summary = NoSummary
    /\ last = NoLast
    /\ call = NewCall("none", FALSE, FALSE)
    /\ calls = 0
    /\ advn = 0
    /\ editn = 0
    /\ lock = 0
    /\ gitignore = NoFile
    /\ threads = NoThreads
    /\ probe \in {ParseProbe(sh) : sh \in Shapes}

\* FlowModuleSpecSummary.from_flow_mod_file(file): how it ends and how many
\* descriptors the summary holds
Parse ==
    /\ probe.kind = "parse"
    /\ probe.status = "none"
    /\ LET r == from_flow_mod_file(probe.file)
       IN probe' = [probe EXCEPT !.status = r.status,
                                 !.n = IF r.status = "ok" THEN Len(r.mods) ELSE 0]
    /\ UNCHANGED <<gitignore, lock, threads, upstream, wc, mf, pc, reqs, allOw, pos, summary, last, call, calls,
                   advn, editn>>

SpecParse == InitParse /\ [][Parse]_vars

\* C18: when a non-empty line after the header block is not the line of a
\* descriptor, wherever it stands, parsing fails with ValueError; otherwise the
\* summary holds one descriptor for each non-empty line
C18_EveryLineParsed ==
    (probe.kind = "parse" /\ probe.status # "none")
        => IF \E i \in 1..Len(probe.shape) : probe.shape[i] = "bad"
           THEN probe.status = "ValueError"
           ELSE /\ probe.status = "ok"
                /\ probe.n = Cardinality({i \in 1..Len(probe.shape) :
                                              probe.shape[i] \in {"a", "b"}})

\* --------------------------------------------- validation, on its own
\* namespaces and names of up to MaxWord atoms
DepProbes ==
    {[kind |-> "validate",
      dep |-> Dep(u \o <<"/">> \o r, rev, ow),
      username |-> u, repo_name |-> r,
      status |-> "none", mod_name |-> None] :
        u \in UNION {[1..n -> {"3", "d"}] : n \in 1..MaxWord},
        r \in UNION {[1..n -> {"3", "d"}] : n \in 1..MaxWord},
        rev \in {None, <<"main">>, <<"/", "src", "/", "lib">>},
        ow \in BOOLEAN}

InitValidate ==
    /\ upstream = [x \in Repos \X RemoteRevisions |-> FirstCommit(x[2])]
    /\ wc = [p \in SyncDirs |-> Absent]
    /\ mf = NoFile
    /\ pc = "idle"
    /\ reqs = <<>>
    /\ allOw = FALSE
    /\ pos = 0
    /\ summary = NoSummary
    /\ last = NoLast
    /\ call = NewCall("none", FALSE, FALSE)
    /\ calls = 0
    /\ advn = 0
    /\ editn = 0
    /\ lock = 0
    /\ gitignore = NoFile
    /\ threads = NoThreads
    /\ probe \in DepProbes

\* validate_and_augment_dependency(dep): how it ends and dep["mod_name"]
Validate ==
    /\ probe.kind = "validate"
    /\ probe.status = "none"
    /\ LET r == validate_and_augment_dependency(probe.dep)
       IN probe' = [probe EXCEPT !.status = r.status,
                                 !.mod_name = IF r.status = "ok" THEN r.mod_name
                                              ELSE None]
    /\ UNCHANGED <<gitignore, lock, threads, upstream, wc, mf, pc, reqs, allOw, pos, summary, last, call, calls,
                   advn, editn>>

SpecValidate == InitValidate /\ [][Validate]_vars

\* C19: a url whose name begins with a digit, a single digit included, fails
\* validation with ValueError
C19_DigitNameRejected ==
    (probe.kind = "validate" /\ probe.status # "none"
        /\ probe.repo_name[1] \in DigitAtoms)
        => probe.status = "ValueError"

\* C20: a url whose namespace begins with a digit and whose name does not passes
\* validation, and its destination name is user_<namespace>/<name>
C20_DigitNamespacePrefixed ==
    (probe.kind = "validate" /\ probe.status # "none"
        /\ probe.username[1] \in DigitAtoms
        /\ probe.repo_name[1] \notin DigitAtoms)
        => /\ probe.status = "ok"
           /\ probe.mod_name = <<"user_">> \o probe.username \o <<"/">> \o probe.repo_name

\* ------------------------------------------- two threads of one process
\* the dependencies the threads sync
ThreadDepLists ==
    LET deps ==
        {Dep(<<"acme", "/", "widgets">>, <<"main">>, FALSE),
         Dep(<<"acme", "/", "widgets">>, <<"dev">>, TRUE),
         Dep(Bare, <<"main">>, FALSE),
         Dep(Bare, <<"dev">>, FALSE)}
    IN UNION {[1..n -> deps] : n \in 1..MaxReqs}

InitThreads ==
    /\ upstream = [x \in Repos \X RemoteRevisions |-> FirstCommit(x[2])]
    /\ wc = [p \in SyncDirs |-> Absent]
    /\ mf = NoFile
    /\ pc = "idle"
    /\ reqs = <<>>
    /\ allOw = FALSE
    /\ pos = 0
    /\ summary = NoSummary
    /\ last = NoLast
    /\ call = NewCall("none", FALSE, FALSE)
    /\ calls = 0
    /\ advn = 0
    /\ editn = 0
    /\ probe = NoProbe
    /\ lock = 0
    /\ gitignore = NoFile
    /\ threads = NoThreads

\* the mutation of _lock that never makes a thread wait
AcquireUnlocked(l) == TRUE

\* _lock.acquire(): whether a thread can take the lock
CanAcquire(l) == l = 0

\* the mutation of the block that releases _lock only at its last line
ExitWithLeak(l, raised) == IF raised THEN l ELSE 0

\* the end of `with _lock:`: _lock is released, whether the block raised or not
ExitWith(l, raised) == 0

\* a thread calls _sync_dependencies and arrives at `with _lock:`
ThreadCall(t, deps, all_overwrite) ==
    /\ threads[t].pc = "out"
    /\ threads' = [threads EXCEPT ![t] = [@ EXCEPT !.pc = "wait", !.reqs = deps,
                                                   !.allOw = all_overwrite]]
    /\ UNCHANGED <<gitignore, upstream, wc, mf, pc, reqs, allOw, pos, summary, last, call, calls,
                   advn, editn, probe, lock>>

\* `with _lock:` is entered
ThreadAcquire(t) ==
    /\ threads[t].pc = "wait"
    /\ CanAcquire(lock)
    /\ lock' = t
    /\ threads' = [threads EXCEPT ![t].pc = "held"]
    /\ UNCHANGED <<gitignore, upstream, wc, mf, pc, reqs, allOw, pos, summary, last, call, calls,
                   advn, editn, probe>>

\* lines 881-896: flow.mod is created when there is none, and read; a ValueError
\* leaves the `with` block
ThreadLoad(t) ==
    /\ threads[t].pc = "held"
    /\ LET file == IF mf.exists THEN mf
                   ELSE FileOf(EmptyFlowModFile(SyncRoot, CacheRoot))
           flow_mod_summary == from_flow_mod_file(file)
       IN /\ mf' = file
          /\ gitignore' = create_empty_flow_mod_file(mf, gitignore).gitignore
          /\ IF flow_mod_summary.status = "ok"
             THEN /\ threads' = [threads EXCEPT
                                    ![t] = [@ EXCEPT !.pc = "run", !.pos = 0,
                                                     !.summary = flow_mod_summary]]
                  /\ lock' = lock
             ELSE /\ threads' = [threads EXCEPT ![t].pc = "failed"]
                  /\ lock' = ExitWith(lock, TRUE)
    /\ UNCHANGED <<upstream, wc, pc, reqs, allOw, pos, summary, last, call, calls,
                   advn, editn, probe>>

\* lines 898-930: one turn of the loop in thread t; an exception leaves the
\* `with` block
ThreadDep(t) ==
    /\ threads[t].pc = "run"
    /\ threads[t].pos < Len(threads[t].reqs)
    /\ LET me == threads[t]
           dep == me.reqs[me.pos + 1]
           v == validate_and_augment_dependency(dep)
       IN IF v.status # "ok"
          THEN /\ threads' = [threads EXCEPT ![t].pc = "failed"]
               /\ lock' = ExitWith(lock, TRUE)
               /\ wc' = wc
          ELSE LET prev == get_mod(me.summary.mods, dep.url)
                   overwrite == me.allOw \/ dep.overwrite
                   outs == IF v.dep_is_local
                           THEN sync_local_dep(wc, prev, dep.url, v.mod_name, v.revision,
                                               SyncRoot, overwrite)
                           ELSE sync_remote_dep(wc, prev, dep.url, v.mod_name,
                                                v.revision, SyncRoot, CacheRoot,
                                                overwrite)
               IN \E r \in outs :
                    LET ok == r.status = "ok" /\ HasRequirements(r.fs, r.spec)
                    IN /\ wc' = r.fs
                       /\ threads' =
                            [threads EXCEPT
                               ![t] = [@ EXCEPT
                                         !.summary =
                                             IF r.status = "ok"
                                             THEN [@ EXCEPT !.mods = add_mod(@, r.spec)]
                                             ELSE @,
                                         !.pos = IF ok THEN @ + 1 ELSE @,
                                         !.pc = IF ok THEN "run" ELSE "failed"]]
                       /\ lock' = IF ok THEN lock ELSE ExitWith(lock, TRUE)
    /\ UNCHANGED <<gitignore, upstream, mf, pc, reqs, allOw, pos, summary, last, call, calls,
                   advn, editn, probe>>

\* lines 932-937: flow.mod is written and the `with` block is left
ThreadEnd(t) ==
    /\ threads[t].pc = "run"
    /\ threads[t].pos = Len(threads[t].reqs)
    /\ mf' = FileOf(write_flow_mod_summary(threads[t].summary))
    /\ threads' = [threads EXCEPT ![t].pc = "done"]
    /\ lock' = ExitWith(lock, FALSE)
    /\ UNCHANGED <<gitignore, upstream, wc, pc, reqs, allOw, pos, summary, last, call, calls,
                   advn, editn, probe>>

NextThreads ==
    \/ \E t \in Threads, deps \in ThreadDepLists, all_overwrite \in BOOLEAN :
          ThreadCall(t, deps, all_overwrite)
    \/ \E t \in Threads : ThreadAcquire(t)
    \/ \E t \in Threads : ThreadLoad(t)
    \/ \E t \in Threads : ThreadDep(t)
    \/ \E t \in Threads : ThreadEnd(t)

SpecThreads == InitThreads /\ [][NextThreads]_vars

\* the threads between `with _lock:` and the end of the block
Inside == {t \in Threads : threads[t].pc \in {"held", "run"}}

\* the repositories flow.mod has a line for
Recorded == {FileEntries(mf)[i].repo_id : i \in 1..Len(FileEntries(mf))}

\* C13: at most one thread is between `with _lock:` and the end of its block, and
\* it holds _lock; the summary a thread works on has every repository flow.mod
\* has a line for, and flow.mod keeps a line for every dependency of every call
\* that returned
C13_MutualExclusion ==
    /\ Cardinality(Inside) <= 1
    /\ \A t \in Inside : lock = t
    /\ \A t \in Threads :
          threads[t].pc = "run"
              => \A r \in Recorded : get_mod(threads[t].summary.mods, r) # NoSpec
    /\ \A t \in Threads :
          threads[t].pc = "done"
              => \A i \in 1..Len(threads[t].reqs) : threads[t].reqs[i].url \in Recorded

\* C13: both threads returned, the second after waiting for the first, and
\* flow.mod has the lines of both
C13_BothRecorded ==
    /\ \A t \in Threads : threads[t].pc = "done"
    /\ threads[1].reqs[1].url # threads[2].reqs[1].url
    /\ Cardinality(Recorded) = 2

\* --------------------------------- validation of the revision, on its own
\* a directory inside the tree below sync_root, and a path named like the default
\* revision in the working directory
InTreeDir == PathJoin(SyncRoot, <<"acme", "/", "widgets">>)

MainPath == PathJoin(HostCwd, DEFAULT_REMOTE_REVISION)

\* the disks and working directories a dependency is validated in
Worlds ==
    {[tag |-> "host", disk |-> Host, cwd |-> HostCwd],
     [tag |-> "tree", disk |-> [dirs |-> LocalDirs \cup {InTreeDir}, files |-> {}],
      cwd |-> HostCwd],
     [tag |-> "inside", disk |-> [dirs |-> LocalDirs \cup {InTreeDir}, files |-> {}],
      cwd |-> SyncRoot],
     [tag |-> "maindir", disk |-> [dirs |-> LocalDirs \cup {MainPath}, files |-> {}],
      cwd |-> HostCwd],
     [tag |-> "mainfile", disk |-> [dirs |-> LocalDirs, files |-> {MainPath}],
      cwd |-> HostCwd]}

\* the revisions given: none, labels, absolute and relative paths
GivenRevisions ==
    {None, <<"main">>, <<"dev">>, <<"/", "src", "/", "lib">>, InTreeDir,
     <<"acme", "/", "widgets">>,
     DEFAULT_FLOW_MODULE_FOLDER \o <<"/", "acme", "/", "widgets">>}

RevisionProbes ==
    {[kind |-> "revision", world |-> w,
      dep |-> Dep(u, rev, ow),
      status |-> "none", is_local |-> FALSE, revision |-> None] :
        w \in Worlds, u \in {<<"acme", "/", "widgets">>, Bare},
        rev \in GivenRevisions, ow \in BOOLEAN}

InitRevision ==
    /\ upstream = [x \in Repos \X RemoteRevisions |-> FirstCommit(x[2])]
    /\ wc = [p \in SyncDirs |-> Absent]
    /\ mf = NoFile
    /\ pc = "idle"
    /\ reqs = <<>>
    /\ allOw = FALSE
    /\ pos = 0
    /\ summary = NoSummary
    /\ last = NoLast
    /\ call = NewCall("none", FALSE, FALSE)
    /\ calls = 0
    /\ advn = 0
    /\ editn = 0
    /\ lock = 0
    /\ gitignore = NoFile
    /\ threads = NoThreads
    /\ probe \in RevisionProbes

\* validate_and_augment_dependency(dep) on the disk and in the working directory
\* of the probe: how it ends, dep_is_local and dep["revision"]
ValidateRevision ==
    /\ probe.kind = "revision"
    /\ probe.status = "none"
    /\ LET r == validate_in(probe.world.disk, probe.world.cwd, probe.dep)
       IN probe' = [probe EXCEPT
                       !.status = r.status,
                       !.is_local = IF r.status = "ok" THEN r.dep_is_local ELSE FALSE,
                       !.revision = IF r.status = "ok" THEN r.revision ELSE None]
    /\ UNCHANGED <<gitignore, lock, threads, upstream, wc, mf, pc, reqs, allOw, pos, summary, last,
                   call, calls, advn, editn>>

SpecRevision == InitRevision /\ [][ValidateRevision]_vars

\* the absolute path the given revision of the probe names
GivenPath ==
    Abspath(probe.world.cwd,
            IF probe.dep.revision = None THEN DEFAULT_REMOTE_REVISION
            ELSE probe.dep.revision)

\* a path below sync_root
InTree(p) ==
    /\ Len(p) > Len(SyncRoot) + 1
    /\ SubSeq(p, 1, Len(SyncRoot) + 1) = SyncRoot \o <<"/">>

\* C21: a revision that names a directory below sync_root, by an absolute or by a
\* relative path, fails validation with ValueError; so does an existing path that
\* is not a directory; an accepted local revision is stored as its absolute path
C21_InTreeRejected ==
    (probe.kind = "revision" /\ probe.status # "none")
        => /\ (GivenPath \in probe.world.disk.dirs /\ InTree(GivenPath))
                  => probe.status = "ValueError"
           /\ GivenPath \in probe.world.disk.files => probe.status = "ValueError"
           /\ (probe.status = "ok" /\ probe.is_local)
                  => (probe.revision = GivenPath /\ IsAbs(probe.revision))

\* C28: a dependency without a revision passes validation as a remote dependency
\* at the revision main, whatever the working directory holds
C28_DefaultRevision ==
    (probe.kind = "revision" /\ probe.status # "none" /\ probe.dep.revision = None)
        => /\ probe.status = "ok"
           /\ ~probe.is_local
           /\ probe.revision = DEFAULT_REMOTE_REVISION

\* ------------------------------------------------ the loop of one call
\* C24: a turn asks a question only when there is a previous descriptor and the
\* overwrite flag applies or the module id differs; it asks nothing when it
\* fetches for the first time, skips, fetches a new commit or keeps local changes
C24_PromptOnlyWhenDue ==
    Acted
        => /\ last.prompt \in {"none", "overwrite", "revision"}
           /\ last.prompt # "none"
                  => /\ last.prev # NoSpec
                     /\ (last.overwrite \/ mod_id(last.prev) # RequestId)
           /\ last.branch \in {"fresh", "skip", "refetch", "preserve"}
                  => last.prompt = "none"
           /\ (last.answer => last.prompt # "none")

\* C24: a turn asked the question about a changed revision, and another fetched
\* a new commit without asking
C24_AskedAboutRevision ==
    Acted /\ last.prompt = "revision" /\ last.prev # NoSpec /\ ~last.overwrite

\* C25: a turn whose reconciliation returned raises ValueError exactly when
\* pip_requirements.txt is missing at the sync location; the call fails, flow.mod
\* is not written, and what the turn fetched stays at the sync location
C25_MissingRequirements ==
    [][(pc = "run" /\ pos < Len(reqs) /\ "spec" \in DOMAIN last' /\ last'.spec # NoSpec)
          => LET sync_dir == last'.spec.sync_dir
                 missing == Entry(NodeAt(wc', sync_dir), "pip_requirements.txt").k
                                = "absent"
             IN /\ (last'.status = "ValueError") = missing
                /\ missing
                      => /\ pc' = "idle" /\ call'.status = "failed"
                         /\ mf' = mf
                         /\ last'.fetched
                               => /\ wc'[sync_dir].k = "dir"
                                  /\ wc'[sync_dir] = NodeAt(wc', last'.spec.cache_dir)]_vars

\* C25: the turn fetched a snapshot without pip_requirements.txt and the call
\* failed with the working copy in place
C25_FetchedWithoutRequirements ==
    /\ Acted /\ last.status = "ValueError" /\ last.spec # NoSpec /\ last.fetched
    /\ pc = "idle" /\ call.status = "failed"
    /\ wc[last.spec.sync_dir].k = "dir"

\* C26: after the turn of a dependency raised, the call has failed and no turn
\* of a later dependency takes place
C26_FailFast ==
    (last.n > 0 /\ last.status # "ok")
        => (pc = "idle" /\ call.status = "failed" /\ pos = last.n - 1)

\* C26: the first of two dependencies failed
C26_FirstOfTwoFailed ==
    /\ last.n = 1 /\ last.status # "ok" /\ Len(reqs) = 2
    /\ pc = "idle" /\ call.status = "failed"

\* C27 as stated: during a call flow.mod is written only after the last turn
C27_WrittenOnceAsStated ==
    [][(editn' = editn /\ mf' # mf)
          => (pc = "run" /\ pos = Len(reqs) /\ pc' = "idle")]_vars

\* C27: the turns take the dependencies in the order given, one after the
\* other, and flow.mod is written after the last turn only, except that a call
\* that finds no flow.mod creates an empty one before its first turn
C27_Sequenced ==
    [][editn' = editn
          => /\ mf' # mf
                  => \/ pc = "run" /\ pos = Len(reqs) /\ pc' = "idle"
                     \/ /\ pc = "idle" /\ ~mf.exists
                        /\ mf' = FileOf(EmptyFlowModFile(SyncRoot, CacheRoot))
             /\ (pc = "run" /\ pos < Len(reqs))
                  => /\ last'.n = pos + 1
                     /\ last'.dep = reqs[pos + 1]
                     /\ pos' = IF last'.status = "ok" THEN pos + 1 ELSE pos
                     /\ mf' = mf]_vars

\* C27: a call that created flow.mod has returned after two turns
C27_TwoTurnsWritten ==
    /\ pc = "idle" /\ call.status = "again" /\ call.fresh
    /\ Len(reqs) = 2 /\ last.n = 2
    /\ reqs[1] # reqs[2]
    /\ mf.exists /\ Len(DepLines(mf)) >= 1

\* -------------------------------------------- one fetch_remote, in steps
\* the fetches made: one repository at one revision, into its sync location
FetchProbes ==
    {[kind |-> "fetch", repo_id |-> r, revision |-> rev,
      sync_dir |-> PathJoin(SyncRoot,
                            validate_and_augment_dependency(Dep(r, rev, FALSE)).mod_name),
      stage |-> "start", hc |-> None, spec |-> NoSpec] :
        r \in Repos, rev \in RemoteRevisions}

InitFetch ==
    /\ upstream \in [Repos \X RemoteRevisions -> Range(Commits)]
    /\ wc = [p \in SyncDirs |-> Absent]
    /\ mf = NoFile
    /\ pc = "idle"
    /\ reqs = <<>>
    /\ allOw = FALSE
    /\ pos = 0
    /\ summary = NoSummary
    /\ last = NoLast
    /\ call = NewCall("none", FALSE, FALSE)
    /\ calls = 0
    /\ advn = 0
    /\ editn = 0
    /\ lock = 0
    /\ gitignore = NoFile
    /\ threads = NoThreads
    /\ probe \in FetchProbes

\* fetch_remote, lines 501-509: the sync location is cleared and the first
\* snapshot_download resolves the revision and returns the snapshot path
FetchRemoteCache ==
    /\ probe.kind = "fetch"
    /\ probe.stage = "start"
    /\ probe' = [probe EXCEPT !.stage = "cached",
                              !.hc = retrive_commit_hash_from_remote(probe.repo_id,
                                                                     probe.revision)]
    /\ wc' = [wc EXCEPT ![probe.sync_dir] = Absent]
    /\ UNCHANGED <<gitignore, lock, threads, upstream, mf, pc, reqs, allOw, pos, summary, last,
                   call, calls, advn, editn>>

\* fetch_remote, lines 511-518: the second snapshot_download resolves the revision
\* again and fills the sync location; the descriptor is built from the first path
FetchRemoteLocalDir ==
    /\ probe.kind = "fetch"
    /\ probe.stage = "cached"
    /\ LET f == fetch_remote(wc, probe.repo_id, probe.revision, probe.sync_dir,
                             CacheRoot, probe.hc,
                             retrive_commit_hash_from_remote(probe.repo_id,
                                                             probe.revision))
       IN /\ wc' = f.fs
          /\ probe' = [probe EXCEPT !.stage = "done", !.spec = f.spec]
    /\ UNCHANGED <<gitignore, lock, threads, upstream, mf, pc, reqs, allOw, pos, summary, last,
                   call, calls, advn, editn>>

\* the registry receives a new commit at a revision label while a fetch runs
AdvanceAnyTime(repo_id, revision) ==
    /\ probe.kind = "fetch"
    /\ advn < MaxAdvance
    /\ NextCommit(upstream[<<repo_id, revision>>]) # upstream[<<repo_id, revision>>]
    /\ upstream' = [upstream EXCEPT ![<<repo_id, revision>>] = NextCommit(@)]
    /\ advn' = advn + 1
    /\ UNCHANGED <<gitignore, lock, threads, wc, mf, pc, reqs, allOw, pos, summary, last, call,
                   calls, editn, probe>>

NextFetch ==
    \/ FetchRemoteCache
    \/ FetchRemoteLocalDir
    \/ \E r \in Repos, rev \in RemoteRevisions : AdvanceAnyTime(r, rev)

SpecFetch == InitFetch /\ [][NextFetch]_vars

\* C22: after fetch_remote the sync location holds the snapshot that the commit
\* hash and the cache path of the returned descriptor name
C22_SameSnapshot ==
    (probe.kind = "fetch" /\ probe.stage = "done")
        => /\ probe.spec.commit_hash
                  = extract_commit_hash_from_cache_mod_dir(probe.spec.cache_dir)
           /\ wc[probe.sync_dir] = NodeAt(wc, probe.spec.cache_dir)
           /\ wc[probe.sync_dir] = SnapshotTree(probe.repo_id, probe.spec.commit_hash)

\* ------------------------------------------------ the .gitignore hook
\* the .gitignore files a call finds: none, or up to MaxIgnoreLines lines that
\* the user wrote
IgnoreFiles ==
    LET lines == { <<"*">>, <<"*", ".pyc">>, <<"build">> }
    IN {NoFile}
       \cup {FileOf(l) : l \in UNION {[1..n -> lines] : n \in 0..MaxIgnoreLines}}

InitIgnore ==
    /\ upstream = [x \in Repos \X RemoteRevisions |-> FirstCommit(x[2])]
    /\ wc = [p \in SyncDirs |-> Absent]
    /\ mf \in {NoFile, FileOf(EmptyFlowModFile(SyncRoot, CacheRoot))}
    /\ pc = "idle"
    /\ reqs = <<>>
    /\ allOw = FALSE
    /\ pos = 0
    /\ summary = NoSummary
    /\ last = NoLast
    /\ call = NewCall("none", FALSE, FALSE)
    /\ calls = 0
    /\ advn = 0
    /\ editn = 0
    /\ lock = 0
    /\ threads = NoThreads
    /\ probe = NoProbe
    /\ gitignore \in IgnoreFiles

NextIgnore ==
    \/ \E deps \in { <<>>, <<Dep(<<"acme", "/", "widgets">>, <<"main">>, FALSE)>> } :
          SyncBegin(deps, FALSE)
    \/ SyncDep
    \/ \E again \in BOOLEAN : SyncEnd(again)

SpecIgnore == InitIgnore /\ [][NextIgnore]_vars

\* C23: after a call that returned, .gitignore has the line `*`, and the block
\* that write_or_append_gitignore writes is in it no more than once (a file in
\* which the user wrote the line `*` needs no block)
C23_CatchAllOnce ==
    (pc = "idle" /\ call.status \in {"done", "again"})
        => /\ gitignore.exists
           /\ \E i \in 1..Len(gitignore.lines) : gitignore.lines[i] = <<"*">>
           /\ Cardinality({i \in 1..Len(gitignore.lines) :
                              gitignore.lines[i] = GitignoreBlock(<<"*">>)[4]}) <= 1

NextShare ==
    \/ LET Prefixed == <<"user_">> \o Bare
           deps == {Dep(Bare, <<"main">>, FALSE), Dep(Prefixed, <<"main">>, FALSE),
                    Dep(Prefixed, <<"dev">>, FALSE),
                    Dep(<<"acme", "/", "widgets">>, <<"main">>, FALSE)}
       IN \E ds \in UNION {[1..n -> deps] : n \in 1..MaxReqs} : SyncBegin(ds, FALSE)
    \/ SyncDep
    \/ \E again \in BOOLEAN : SyncEnd(again)

SpecShare == Init /\ [][NextShare]_vars

\* C30: two descriptors of flow.mod with different repository ids have different
\* sync locations, and a turn changes no sync location but that of its own
\* dependency
C30_DistinctLocations ==
    /\ \A i, j \in 1..Len(FileEntries(mf)) :
          FileEntries(mf)[i].repo_id # FileEntries(mf)[j].repo_id
              => FileEntries(mf)[i].sync_dir # FileEntries(mf)[j].sync_dir
    /\ InTurn
          => \A i \in 1..Len(summary.mods) :
                 (summary.mods[i].repo_id # last.dep.url /\ last.fetched)
                     => summary.mods[i].sync_dir # last.spec.sync_dir

\* ---------------------------------------------- removal of a working copy
\* C31: a turn removes the directory or link at the sync location only after the
\* question was answered yes or after is_sync_dir_modified returned False, also
\* when flow.mod has no descriptor of the repository
C31_NoSilentRemoval ==
    (Acted /\ last.removed) => (last.answer \/ last.mod = "same")

\* ------------------------------------------------------------ keep previous
\* C32: a turn that ends in keep previous (the question answered no, the commit
\* already in sync, or the local changes preserved) leaves the sync location as it
\* was, and the descriptor it puts into the summary is the previous descriptor,
\* field by field
C32_KeptUnchanged ==
    (Acted /\ last.status = "ok" /\ ~last.fetched)
        => /\ last.branch \in {"overwrite", "revision", "skip", "preserve"}
           /\ wc[PathJoin(SyncRoot, last.mod_name)] = last.before
           /\ last.spec = last.prev
           /\ InTurn => EntryNow = last.prev

\* C32: the question about a working copy that differs from its pristine snapshot
\* was answered no
C32_DeclinedWithChanges ==
    /\ InTurn /\ last.status = "ok" /\ ~last.fetched
    /\ last.prompt # "none" /\ ~last.answer
    /\ last.before.k = "dir" /\ last.before # last.pristine

\* -------------------------------------------------- a deleted working file
\* C33: when a file of the pristine snapshot that is not skipped is missing from
\* the working copy, is_sync_dir_modified returns True: the turn does not raise
\* and does not fetch again on its own
C33_DeletedIsModification ==
    (/\ Acted /\ ~last.local /\ last.nIsMod > 0
     /\ last.before.k = "dir" /\ last.pristine.k = "dir"
     /\ \E n \in DOMAIN last.pristine.e \ SkippedNames :
           last.pristine.e[n].k = "file" /\ n \notin DOMAIN last.before.e)
        => /\ last.mod = "mod"
           /\ last.status # "OSError"
           /\ last.branch # "refetch"

\* ------------------------------------------- one origin id twice in a list
\* the list of the call names the same repository twice
SameIdTwice == Len(reqs) = 2 /\ reqs[1].url = reqs[2].url

\* C34: when one repository id occurs twice in the list of a call, the turn of
\* the second occurrence takes as previous descriptor the descriptor the turn of
\* the first occurrence returned, and the file written at the end of the call has
\* one line for that id, the line of the descriptor of the second turn
C34_SecondAgainstFirst ==
    /\ [][(/\ SameIdTwice /\ pc = "run" /\ pos = 1 /\ pos' = 2
           /\ last.n = 1 /\ last.status = "ok")
             => last'.prev = last.spec]_vars
    /\ [][(/\ SameIdTwice /\ pc = "run" /\ pos = 2 /\ pc' = "idle"
           /\ last.n = 2 /\ last.status = "ok")
             => LET id == reqs[1].url
                    of_id == {i \in 1..Len(DepLines(mf')) :
                                 /\ Len(DepLines(mf')[i]) > Len(id)
                                 /\ SubSeq(DepLines(mf')[i], 1, Len(id) + 1)
                                        = id \o <<" ">>}
                IN /\ Cardinality(of_id) = 1
                   /\ \A i \in of_id : DepLines(mf')[i] = ModLine(last.spec, SyncRoot)]_vars

\* C34: flow.mod had no descriptor when the call began, and the second turn for
\* the same repository id found the descriptor of the first turn and fetched the
\* other revision after the question
C34_SecondReplacedFirst ==
    /\ SameIdTwice /\ InTurn /\ last.n = 2 /\ last.status = "ok"
    /\ call.fresh
    /\ last.prev # NoSpec /\ last.fetched /\ last.spec # last.prev

\* ------------------------------------- a flow.mod found at the first call
\* sync_dependencies, line 961: the sync_dir of every descriptor of the summary
\* that _sync_dependencies returns
sync_dependencies(flow_mod_summary) ==
    [i \in 1..Len(flow_mod_summary.mods) |-> flow_mod_summary.mods[i].sync_dir]

\* The destination root as earlier calls and the user left it: without flow.mod;
\* with the flow.mod that a call with an empty list created, under this cache root
\* or under another one; with two repositories fetched and their two lines in
\* flow.mod, the lines next to each other or with an empty line between them.
InitFound ==
    /\ upstream = [x \in Repos \X RemoteRevisions |-> FirstCommit(x[2])]
    /\ LET dir(r) ==
               PathJoin(SyncRoot,
                        validate_and_augment_dependency(Dep(r, None, FALSE)).mod_name)
           none == [p \in SyncDirs |-> Absent]
           a == fetch_remote(none, Edited, <<"main">>, dir(Edited), CacheRoot,
                             Commits[1], Commits[1])
           b == fetch_remote(a.fs, Bare, <<"main">>, dir(Bare), CacheRoot,
                             Commits[1], Commits[1])
           two(between) ==
               FileOf(EmptyFlowModFile(SyncRoot, CacheRoot)
                      \o <<ModLine(a.spec, SyncRoot)>> \o between
                      \o <<ModLine(b.spec, SyncRoot)>>)
       IN \/ wc = none
             /\ mf \in {NoFile, FileOf(EmptyFlowModFile(SyncRoot, CacheRoot)),
                        FileOf(EmptyFlowModFile(SyncRoot, <<"/", "c2">>))}
          \/ wc = b.fs /\ mf \in {two(<<>>), two(<< <<>> >>)}
    /\ pc = "idle"
    /\ reqs = <<>>
    /\ allOw = FALSE
    /\ pos = 0
    /\ summary = NoSummary
    /\ last = NoLast
    /\ call = NewCall("none", FALSE, FALSE)
    /\ calls = 0
    /\ advn = 0
    /\ editn = 0
    /\ lock = 0
    /\ gitignore = NoFile
    /\ threads = NoThreads
    /\ probe = NoProbe

SpecFound == InitFound /\ [][NextShare]_vars

\* the repository ids of the dependency lines of a manifest file
LineIds(file) ==
    {ModLineMatch(Strip(l))[1] \o <<"/">> \o ModLineMatch(Strip(l))[2] :
        l \in {x \in Range(DepLines(file)) :
                  Strip(x) # <<>> /\ ModLineMatch(Strip(x)) # None}}

\* a call returns: flow.mod is written
Returns == pc = "run" /\ pos = Len(reqs) /\ pc' = "idle"

C36_CacheRootConsistent ==
    [][(Returns /\ Acted /\ last.status = "ok" /\ last.fetched /\ ~last.local)
          => /\ from_flow_mod_file(mf').status = "ok"
             /\ from_flow_mod_file(mf').cache_root = CacheRoot
             /\ get_mod(from_flow_mod_file(mf').mods, last.dep.url).cache_dir
                    = last.spec.cache_dir]_vars

\* C37: when .gitignore exists before flow.mod is created, every line it had is
\* still in it after create_empty_flow_mod_file, and `*` is a line of its own
\* even when the file had the character `*` inside another line
C37_RulesKept ==
    [][(~mf.exists /\ mf'.exists /\ gitignore.exists)
          => /\ \A i \in 1..Len(gitignore.lines) :
                    gitignore.lines[i] \in Range(gitignore'.lines)
             /\ <<"*">> \in Range(gitignore'.lines)]_vars

\* ------------------------------------------------------------ CircularFlow
\* A CircularFlow after construction: its flow_config (max_rounds, the subflows
\* that are reset every round) and its subflows in the order of the dict, before
\* run is called.  probe holds the object and the position of run in its loops.
InitCircular ==
    /\ upstream = [x \in Repos \X RemoteRevisions |-> FirstCommit(x[2])]
    /\ wc = [p \in SyncDirs |-> Absent]
    /\ mf = NoFile
    /\ pc = "idle"
    /\ reqs = <<>>
    /\ allOw = FALSE
    /\ pos = 0
    /\ summary = NoSummary
    /\ last = NoLast
    /\ call = NewCall("none", FALSE, FALSE)
    /\ calls = 0
    /\ advn = 0
    /\ editn = 0
    /\ lock = 0
    /\ gitignore = NoFile
    /\ threads = NoThreads
    /\ \E m \in 0..MaxRounds, r \in SUBSET {"generator", "critic"} :
          probe = [kind |-> "circular", max_rounds |-> m, reset_every_round |-> r,
                   subflows |-> <<"generator", "critic">>,
                   at |-> "new", idx |-> 0, k |-> 1,
                   flow_state |-> <<>>, called |-> <<>>]

\* run, lines 29-31: the input data goes into the flow state
CircularRun ==
    /\ probe.kind = "circular"
    /\ probe.at = "new"
    /\ probe' = [probe EXCEPT !.at = "loop", !.flow_state = <<"input_data">>]
    /\ UNCHANGED <<gitignore, lock, threads, upstream, wc, mf, pc, reqs, allOw, pos, summary, last, call,
                   calls, advn, editn>>

\* run, lines 32-46: one turn of the inner loop in round idx.  The subflow is
\* reset when the configuration says so, it is called, its output goes into the
\* flow state, and _early_exit() is asked: early_exit is its answer.  `break`
\* leaves the inner loop; the outer loop goes on with the next round.
CircularCall(early_exit) ==
    /\ probe.kind = "circular"
    /\ probe.at = "loop"
    /\ probe.idx < probe.max_rounds
    /\ LET flow_name == probe.subflows[probe.k]
           round_ends == early_exit \/ probe.k = Len(probe.subflows)
       IN probe' = [probe EXCEPT
                       !.called = Append(@, [idx |-> probe.idx, flow |-> flow_name,
                                             reset |-> flow_name \in probe.reset_every_round,
                                             updates |-> Len(probe.flow_state),
                                             early_exit |-> early_exit]),
                       !.flow_state = Append(@, flow_name),
                       !.idx = IF round_ends THEN @ + 1 ELSE @,
                       !.k = IF round_ends THEN 1 ELSE @ + 1]
    /\ UNCHANGED <<gitignore, lock, threads, upstream, wc, mf, pc, reqs, allOw, pos, summary, last, call,
                   calls, advn, editn>>

\* run, lines 48-52: the outer loop is over; output_message is read, which is
\* not bound when no subflow was called
CircularReturn ==
    /\ probe.kind = "circular"
    /\ probe.at = "loop"
    /\ probe.idx = probe.max_rounds
    /\ probe' = [probe EXCEPT !.at = IF probe.called = <<>> THEN "UnboundLocalError"
                                     ELSE "returned"]
    /\ UNCHANGED <<gitignore, lock, threads, upstream, wc, mf, pc, reqs, allOw, pos, summary, last, call,
                   calls, advn, editn>>

SpecCircular ==
    InitCircular
    /\ [][CircularRun \/ (\E e \in BOOLEAN : CircularCall(e)) \/ CircularReturn]_vars

\* C38: run makes no more than max_rounds rounds, calls the subflows of a round in
\* their declared order, puts the output of each call into the flow state, and
\* calls no subflow after a call at whose end _early_exit() held, in that round or
\* in a later one
C38_EndsAtEarlyExit ==
    probe.kind = "circular"
        => LET c == probe.called
           IN /\ \A i \in 1..Len(c) :
                    /\ c[i].idx < probe.max_rounds
                    /\ c[i].updates = i
                    /\ i > 1 =>
                          \/ c[i].idx = c[i - 1].idx
                             /\ \E k \in 1..(Len(probe.subflows) - 1) :
                                   /\ c[i - 1].flow = probe.subflows[k]
                                   /\ c[i].flow = probe.subflows[k + 1]
                          \/ c[i].idx > c[i - 1].idx /\ c[i].flow = probe.subflows[1]
              /\ Len(probe.flow_state) = Len(c) + (IF probe.at = "new" THEN 0 ELSE 1)
              /\ \A i \in 1..(Len(c) - 1) : ~c[i].early_exit

====
